---- MODULE Spec2Model ----
(***************************************************************************)
(* claude-adapter: the protocol conversion layer.                          *)
(*                                                                         *)
(*   - the request mapper with its tool-id deduplication context           *)
(*     (src/src/converters/request.ts, second definition, lines 197-606),  *)
(*   - the native stream re-emitter (converters/streaming.ts, held in      *)
(*     src/src/converters/xmlPrompt.ts lines 349-672),                     *)
(*   - the XML buffered stream re-emitter                                  *)
(*     (src/src/converters/xmlStreaming.ts lines 1-320).                   *)
(*                                                                         *)
(* Strings are sequences of characters or of tokens, so that lengths,      *)
(* prefixes, concatenation and pattern matches are computed.               *)
(***************************************************************************)
EXTENDS Integers, Sequences, FiniteSets, TLC

VARIABLES
    converter,      \* which converter this behaviour exercises
    \* ---- request mapper (convertRequestToOpenAI) ----
    toolFormat,     \* the toolFormat argument: "native" or "xml"
    anthropicRequest, \* the Protocol-A request without its messages
    openaiRequest,  \* the scalar fields of the Protocol-B request, once it is built
    reqPc,          \* "converting" while the message loop runs, then "returned"
    anthropicMsgs,  \* the Protocol-A messages consumed so far, in order
    messages,       \* the Protocol-B messages produced so far
    idDedup,        \* the deduplication context: seenIds, idMappings, resultIndex
    mappedBefore,   \* the tool_use ids of the requests that earlier calls mapped
    \* ---- native stream re-emitter: the process ----
    usedToolIds,    \* the process-wide Set of used tool ids, in insertion order
    toolIdCounter,  \* the process-wide counter of generateUniqueToolId
    \* ---- native stream re-emitter: one stream (streamOpenAIToAnthropic) ----
    natPc,          \* "iterating" in the for-await loop, then "finished" or "errored"
    natChunkCount,  \* the number of backend chunks received so far
    natToolDeltas,  \* the tool-call deltas received so far, in order
    natFinishes,    \* how many chunks carried finish_reason, and whether the last one did
    natUsage,       \* the usage object of the last chunk that carried one
    natState,       \* the StreamingState object
    natEvents,      \* the SSE events written to the response, in order
    natEnded,       \* raw.end() was called
    natThrown,      \* the exception the backend sequence raised, and the events sent before it
    \* ---- XML stream re-emitter: one stream (streamXmlOpenAIToAnthropic) ----
    xmlPc,          \* "iterating" in the for-await loop, then "finished" or "errored"
    xmlChunkCount,  \* the number of backend chunks received so far
    xmlText,        \* the text content of the chunks received so far, concatenated
    xmlUsage,       \* the usage object of the last chunk that carried one
    xmlState,       \* the BufferedState object
    xmlEvents,      \* the SSE events written to the response, in order
    xmlEnded,       \* raw.end() was called
    xmlThrown,      \* the exception the backend sequence raised, and the events sent before it
    \* ---- response mapper (convertResponseToAnthropic) ----
    respPc,         \* "waiting" for the backend response, then "returned" or "threw"
    openaiResponse, \* the backend response handed to the mapper
    anthropicResponse, \* the Protocol-A response the mapper returned
    \* ---- messages handler (createMessagesHandler) ----
    srvPc,          \* "received", "mapped", "delivering" or "done"
    srvBody,        \* request.body
    srvStyle,       \* config.toolCallingStyle
    srvBackend,     \* "not called", "returned" or "rejected"
    srvRan,         \* the output converters that ran, in order
    srvReply        \* the status code sent with the reply, if one was sent

reqLoop == <<reqPc, anthropicMsgs, messages, idDedup>>

reqVars == <<mappedBefore, toolFormat, anthropicRequest, openaiRequest, reqLoop>>

procVars == <<usedToolIds, toolIdCounter>>

natReceived == <<natChunkCount, natToolDeltas, natFinishes, natUsage>>

natVars == <<natPc, natReceived, natState, natEvents, natEnded, natThrown>>

xmlVars == <<xmlPc, xmlChunkCount, xmlText, xmlUsage, xmlState, xmlEvents, xmlEnded, xmlThrown>>

respVars == <<respPc, openaiResponse, anthropicResponse>>

srvVars == <<srvPc, srvBody, srvStyle, srvBackend, srvRan, srvReply>>

vars == <<converter, reqVars, procVars, natVars, xmlVars, respVars, srvVars>>

-----------------------------------------------------------------------------
(* Bounds *)

\* number of Protocol-A messages of one request
MaxMsgs == 3

\* number of backend chunks of one stream
MaxChunks == 3

\* number of text tokens of one backend chunk in XML mode
MaxChunkTokens == 2

\* number of text tokens of one XML stream
MaxStreamTokens == 4

\* the tool-id counter is followed up to this value
\* the longest tool_calls list of a backend response
MaxToolCalls == 2

MaxToolIdCounter == 3

\* xmlPrompt.ts:376 keeps 10000 ids before it cleans up; scaled down
UsedToolIdsLimit == 2

\* xmlPrompt.ts:378 deletes the 5000 oldest ids; scaled down
UsedToolIdsEvict == 1

-----------------------------------------------------------------------------
(* Strings *)

\* what String.trim() removes
Whitespace == {" ", "\n"}

\* String.trim()
RECURSIVE Trim(_)
Trim(text) ==
    IF text = <<>> THEN text
    ELSE IF Head(text) \in Whitespace THEN Trim(Tail(text))
    ELSE IF text[Len(text)] \in Whitespace THEN Trim(SubSeq(text, 1, Len(text) - 1))
    ELSE text

\* String.startsWith
StartsWith(s, p) == Len(s) >= Len(p) /\ SubSeq(s, 1, Len(p)) = p

\* String.includes
Includes(s, p) == \E i \in 1..(Len(s) - Len(p) + 1) : SubSeq(s, i, i + Len(p) - 1) = p

-----------------------------------------------------------------------------
(* Identifiers: sequences of characters *)

\* request.ts:571  if (originalLen > 11)
KeepThreshold == 11

\* request.ts:573  toolUse.id.substring(0, 8)
KeepPrefix == 8

ShortId == <<"a">>

LongId == <<"a", "a", "a", "a", "a", "a", "a", "a", "a", "a", "a", "a">>

\* the tool_use ids a client may send
IdPool == {ShortId, LongId}

\* What Math.random() delivers during one repair: the character of request.ts:568
\* drawn at the odd and at the even positions. A sample of the draws: "a" every
\* time (which rebuilds an id made of "a"s), or "b" and "a" alternating.
RandomDraws == {<<"a", "a">>, <<"b", "a">>}

\* the n characters drawn under d
Drawn(d, n) == [i \in 1..n |-> d[IF i % 2 = 1 THEN 1 ELSE 2]]

\* the values the loop `for (i = from; i < originalLen; i++) idToUse += chars.charAt(random)`
\* can append to `prefix`
RandomFill(prefix, from, originalLen) ==
    {prefix \o Drawn(d, IF originalLen > from THEN originalLen - from ELSE 0)
        : d \in RandomDraws}

\* a repair that draws every character anew, whatever the length
RepairIdFresh(id) == RandomFill(<<>>, 0, Len(id))

\* the replacement ids the duplicate branch can produce for `id`
RepairId(id) ==
    IF Len(id) > KeepThreshold
    THEN RandomFill(SubSeq(id, 1, KeepPrefix), KeepPrefix, Len(id))
    ELSE RandomFill(<<>>, 0, Len(id))

-----------------------------------------------------------------------------
(* Protocol-A content blocks and messages *)

TextBlock(t) == [type |-> "text", text |-> t, id |-> <<>>, name |-> <<>>, input |-> <<>>]

ToolUseBlock(id) ==
    [type |-> "tool_use", text |-> <<>>, id |-> id, name |-> <<"f">>, input |-> <<"{}">>]

ToolResultBlock(id) ==
    [type |-> "tool_result", text |-> <<"out">>, id |-> id, name |-> <<>>, input |-> <<>>]

\* block lists over B: none, one block, or the same block twice
BlockLists(B) == {<<>>} \cup {<<x>> : x \in B} \cup {<<x, x>> : x \in B}

\* texts, as sequences of characters
UserText == <<"h", "i">>

AssistantText == <<"o", "k", "a", "y">>

\* a JSON starter, with the blank a client may leave after it
PrefillText == <<"{", " ">>

UserBlockLists ==
    BlockLists({ToolResultBlock(i) : i \in IdPool})
        \cup {<<TextBlock(UserText)>>,
              <<TextBlock(UserText), ToolResultBlock(ShortId)>>,
              <<ToolResultBlock(ShortId), TextBlock(UserText)>>}

AssistantBlockLists ==
    BlockLists({ToolUseBlock(i) : i \in IdPool})
        \cup {<<TextBlock(AssistantText)>>,
              <<TextBlock(PrefillText)>>,
              <<TextBlock(AssistantText), ToolUseBlock(ShortId)>>}

-----------------------------------------------------------------------------
(* The deduplication context *)

EmptyCtx == [seenIds |-> {}, idMappings |-> <<>>, resultIndex |-> <<>>]

Has(map, key) == key \in DOMAIN map

\* the concatenation of a sequence of sequences
RECURSIVE Flatten(_)
Flatten(seqs) == IF seqs = <<>> THEN <<>> ELSE Head(seqs) \o Flatten(Tail(seqs))

Put(map, key, val) == [k \in (DOMAIN map) \cup {key} |-> IF k = key THEN val ELSE map[k]]

\* resultIndex.get(id) || 0
ResultIdx(ctx, id) == IF Has(ctx.resultIndex, id) THEN ctx.resultIndex[id] ELSE 0

\* a lookup that leaves the cursor where it is
ResolveToolResultNoAdvance(ctx, id) ==
    IF Has(ctx.idMappings, id) /\ ResultIdx(ctx, id) < Len(ctx.idMappings[id])
    THEN [ctx |-> ctx, toolCallId |-> ctx.idMappings[id][ResultIdx(ctx, id) + 1]]
    ELSE [ctx |-> ctx, toolCallId |-> id]

\* a lookup that moves the cursor on whether or not it found an assigned id
ResolveToolResultAlwaysAdvance(ctx, id) ==
    IF Has(ctx.idMappings, id) /\ ResultIdx(ctx, id) < Len(ctx.idMappings[id])
    THEN [ctx |-> [ctx EXCEPT !.resultIndex = Put(@, id, ResultIdx(ctx, id) + 1)],
          toolCallId |-> ctx.idMappings[id][ResultIdx(ctx, id) + 1]]
    ELSE [ctx |-> [ctx EXCEPT !.resultIndex = Put(@, id, ResultIdx(ctx, id) + 1)],
          toolCallId |-> id]

\* one tool_result block -> [ctx, toolCallId]
ResolveToolResult(ctx, id) ==
    IF Has(ctx.idMappings, id) /\ ResultIdx(ctx, id) < Len(ctx.idMappings[id])
    THEN [ctx |-> [ctx EXCEPT !.resultIndex = Put(@, id, ResultIdx(ctx, id) + 1)],
          toolCallId |-> ctx.idMappings[id][ResultIdx(ctx, id) + 1]]
    ELSE [ctx |-> ctx, toolCallId |-> id]

\* ids that are drawn anew as soon as any id has been seen
IdsToUseAfterFirst(ctx, id) == IF ctx.seenIds # {} THEN RepairId(id) ELSE {id}

\* the ids one tool_use block can be given
IdsToUse(ctx, id) == IF id \in ctx.seenIds THEN RepairId(id) ELSE {id}

\* one tool_use block with the id chosen for it -> ctx
RegisterToolUse(ctx, id, idToUse) ==
    [ctx EXCEPT !.seenIds = @ \cup {idToUse},
                !.idMappings = Put(@, id, (IF Has(@, id) THEN @[id] ELSE <<>>) \o <<idToUse>>)]

\* processUserContentBlocks: the outcome [ctx, userContent, toolResults]
RECURSIVE ProcessUserContentBlocks(_, _, _)
ProcessUserContentBlocks(blocks, ctx, acc) ==
    IF blocks = <<>> THEN [acc EXCEPT !.ctx = ctx]
    ELSE LET b == Head(blocks) IN
         IF b.type = "text"
         THEN ProcessUserContentBlocks(Tail(blocks), ctx,
                  [acc EXCEPT !.userContent = Append(@, b.text)])
         ELSE IF b.type = "tool_result"
         THEN LET r == ResolveToolResult(ctx, b.id) IN
              ProcessUserContentBlocks(Tail(blocks), r.ctx,
                  [acc EXCEPT !.toolResults = Append(@, [role |-> "tool",
                                                         tool_call_id |-> r.toolCallId,
                                                         content |-> b.text,
                                                         tool_calls |-> <<>>])])
         ELSE ProcessUserContentBlocks(Tail(blocks), ctx, acc)

\* the tool_calls entry of a tool_use block; arguments: JSON.stringify(toolUse.input)
ToolCall(idToUse, toolUse) == [id |-> idToUse, name |-> toolUse.name, arguments |-> toolUse.input]

\* processAssistantContentBlocks: the set of outcomes [ctx, textContent, toolCalls],
\* one per result of the random generation
RECURSIVE ProcessAssistantContentBlocks(_, _, _)
ProcessAssistantContentBlocks(blocks, ctx, acc) ==
    IF blocks = <<>> THEN {[acc EXCEPT !.ctx = ctx]}
    ELSE LET b == Head(blocks) IN
         IF b.type = "text"
         THEN ProcessAssistantContentBlocks(Tail(blocks), ctx,
                  [acc EXCEPT !.textContent = @ \o b.text])
         ELSE IF b.type = "tool_use"
         THEN UNION {ProcessAssistantContentBlocks(Tail(blocks),
                         RegisterToolUse(ctx, b.id, idToUse),
                         [acc EXCEPT !.toolCalls = Append(@, ToolCall(idToUse, b))])
                     : idToUse \in IdsToUse(ctx, b.id)}
         ELSE ProcessAssistantContentBlocks(Tail(blocks), ctx, acc)

UserAcc == [ctx |-> EmptyCtx, userContent |-> <<>>, toolResults |-> <<>>]

AssistantAcc == [ctx |-> EmptyCtx, textContent |-> <<>>, toolCalls |-> <<>>]

-----------------------------------------------------------------------------
(* convertMessage *)

\* "<tool_code"
ToolCodeStart == <<"<", "t", "o", "o", "l", "_", "c", "o", "d", "e">>

\* "</tool_code>"
ToolCodeEnd == <<"<", "/", "t", "o", "o", "l", "_", "c", "o", "d", "e", ">">>

\* prefillTokens; the backtick and the double quote are written by name
PrefillTokens ==
    {<<"{">>, <<"[">>, <<"backtick", "backtick", "backtick">>, <<"{", "quote">>,
     <<"[", "{">>, <<"<">>,
     ToolCodeStart, ToolCodeStart \o <<">">>}

\* an isAssistantPrefill that knows the short contents only
IsAssistantPrefillShort(content) == Len(Trim(content)) <= 2

\* isAssistantPrefill
IsAssistantPrefill(content) ==
    LET trimmed == Trim(content) IN
    \/ trimmed \in PrefillTokens
    \/ Len(trimmed) <= 2
    \/ StartsWith(trimmed, ToolCodeStart) /\ ~Includes(trimmed, ToolCodeEnd)

\* "Skip assistant prefill messages when content is just a JSON starter"
SkipsAssistant(r) ==
    Len(r.toolCalls) = 0 /\ r.textContent # <<>> /\ IsAssistantPrefill(r.textContent)

\* a Protocol-B message
Message(role, content) ==
    [role |-> role, tool_call_id |-> <<>>, content |-> content, tool_calls |-> <<>>]

\* content: null
Null == <<"null">>

\* the line breaks of the XML templates
Newline == <<"\n">>

\* the strings of a list joined with '\n\n'
RECURSIVE JoinBlankLine(_)
JoinBlankLine(strings) ==
    IF strings = <<>> THEN <<>>
    ELSE IF Len(strings) = 1 THEN strings[1]
    ELSE strings[1] \o Newline \o Newline \o JoinBlankLine(Tail(strings))

\* `<tool_output>\n${t.content}\n</tool_output>`
XmlToolOutput(t) == <<"<tool_output>">> \o Newline \o t.content \o Newline \o <<"</tool_output>">>

\* `<tool_code name="${tc.function.name}">\n${args}\n</tool_code>`
XmlToolCode(tc) ==
    <<"<tool_code name=">> \o tc.name \o <<">">> \o Newline \o tc.arguments \o Newline
        \o <<"</tool_code>">>

\* a text, then the XML blocks after an empty line
WithXmlBlocks(text, blocks) ==
    IF blocks = <<>> THEN text
    ELSE IF text # <<>> THEN text \o Newline \o Newline \o JoinBlankLine(blocks)
    ELSE JoinBlankLine(blocks)

\* the user message that follows the tool messages, if any
UserContentMessages(userContent) ==
    IF Len(userContent) > 0
    THEN <<Message("user", IF Len(userContent) = 1 THEN userContent[1] ELSE userContent)>>
    ELSE <<>>

\* "XML Mode: Flatten tool results into the user message text"
UserFlatMessages(r) ==
    LET flatContent == WithXmlBlocks(Flatten(r.userContent),
                                     [i \in DOMAIN r.toolResults |-> XmlToolOutput(r.toolResults[i])])
    IN  IF flatContent # <<>> THEN <<Message("user", flatContent)>> ELSE <<>>

\* a native expansion that puts the user content before the tool messages
UserBlockMessagesTextFirst(r) ==
    IF toolFormat = "xml" THEN UserFlatMessages(r)
    ELSE UserContentMessages(r.userContent) \o r.toolResults

\* the messages of a user message with content blocks
UserBlockMessages(r) ==
    IF toolFormat = "xml" THEN UserFlatMessages(r)
    ELSE r.toolResults \o UserContentMessages(r.userContent)

\* the messages of an assistant message with content blocks
AssistantBlockMessages(r) ==
    IF SkipsAssistant(r) THEN <<>>
    ELSE IF toolFormat = "xml"
    THEN <<Message("assistant",
                   WithXmlBlocks(r.textContent,
                                 [i \in DOMAIN r.toolCalls |-> XmlToolCode(r.toolCalls[i])]))>>
    ELSE <<[Message("assistant", IF r.textContent # <<>> THEN r.textContent ELSE Null)
               EXCEPT !.tool_calls = r.toolCalls]>>

\* the messages of an assistant message with string content
AssistantStringMessages(content) ==
    IF IsAssistantPrefill(content) THEN <<>> ELSE <<Message("assistant", content)>>

\* a Protocol-A message whose content is a string
StringMessage(role, content) ==
    [role |-> role, isString |-> TRUE, received |-> content, content |-> content]

\* a Protocol-A message whose content is an array of blocks: the blocks the
\* caller passed in, and the blocks its message holds after the call
BlocksMessage(role, blocks) ==
    [role |-> role, isString |-> FALSE, received |-> blocks, content |-> blocks]

\* blocks whose tool_use ids are overwritten with the ids put on the wire
BlocksAfterRewritten(blocks, toolCalls) ==
    [i \in DOMAIN blocks |->
        IF blocks[i].type = "tool_use"
        THEN [blocks[i] EXCEPT
                 !.id = toolCalls[Cardinality({j \in 1..i : blocks[j].type = "tool_use"})].id]
        ELSE blocks[i]]

\* the blocks of the caller after processAssistantContentBlocks: `let idToUse =
\* toolUse.id` copies the id, and no statement assigns to a block
BlocksAfter(blocks, toolCalls) == blocks

\* one turn of the message loop
Converting ==
    /\ converter = "request"
    /\ reqPc = "converting"
    /\ Len(anthropicMsgs) < MaxMsgs

ConvertUserString(content) ==
    /\ Converting
    /\ messages' = Append(messages, Message("user", content))
    /\ anthropicMsgs' = Append(anthropicMsgs, StringMessage("user", content))
    /\ UNCHANGED <<converter, respVars, srvVars, mappedBefore, toolFormat, anthropicRequest, openaiRequest, reqPc, idDedup,
                   procVars, natVars, xmlVars>>

ConvertAssistantString(content) ==
    /\ Converting
    /\ messages' = messages \o AssistantStringMessages(content)
    /\ anthropicMsgs' = Append(anthropicMsgs, StringMessage("assistant", content))
    /\ UNCHANGED <<converter, respVars, srvVars, mappedBefore, toolFormat, anthropicRequest, openaiRequest, reqPc, idDedup,
                   procVars, natVars, xmlVars>>

ConvertUserBlocks(blocks) ==
    /\ Converting
    /\ LET r == ProcessUserContentBlocks(blocks, idDedup, UserAcc) IN
       /\ idDedup' = r.ctx
       /\ messages' = messages \o UserBlockMessages(r)
    /\ anthropicMsgs' = Append(anthropicMsgs, BlocksMessage("user", blocks))
    /\ UNCHANGED <<converter, respVars, srvVars, mappedBefore, toolFormat, anthropicRequest, openaiRequest, reqPc, procVars,
                   natVars, xmlVars>>

ConvertAssistantBlocks(blocks) ==
    /\ Converting
    /\ \E r \in ProcessAssistantContentBlocks(blocks, idDedup, AssistantAcc) :
          /\ idDedup' = r.ctx
          /\ messages' = messages \o AssistantBlockMessages(r)
          /\ anthropicMsgs' =
                 Append(anthropicMsgs, [BlocksMessage("assistant", blocks)
                                           EXCEPT !.content = BlocksAfter(blocks, r.toolCalls)])
    /\ UNCHANGED <<converter, respVars, srvVars, mappedBefore, toolFormat, anthropicRequest, openaiRequest, reqPc, procVars,
                   natVars, xmlVars>>

-----------------------------------------------------------------------------
(* convertRequestToOpenAI: the request built after the message loop *)

\* an optional field that is absent
Absent == <<>>

\* a tool definition; its description holds a character escapeXml rewrites
ToolDefinition == [name |-> <<"f">>, description |-> <<"d", "<">>, input_schema |-> <<"{}">>]

\* system: a string
SystemString(text) == <<[isString |-> TRUE, text |-> text, parts |-> <<>>]>>

\* system: an array of AnthropicSystemContent, given by their texts
SystemArray(texts) == <<[isString |-> FALSE, text |-> <<>>, parts |-> texts]>>

\* CLAUDE_CODE_IDENTIFIER, one token of a system text
ClaudeCodeIdentifier == "You are Claude Code, Anthropic's official CLI for Claude."

\* a request that carries the required fields only
PlainRequest ==
    [system |-> Absent, max_tokens |-> 1024, stream |-> FALSE, temperature |-> Absent,
     top_p |-> Absent, stop_sequences |-> Absent, tools |-> Absent, tool_choice |-> Absent]

\* the requests a client sends: the scalar fields, each optional one wrapped in a
\* sequence when it is present
AnthropicRequests ==
    {PlainRequest,
     [PlainRequest EXCEPT !.max_tokens = 1, !.stream = TRUE, !.system = SystemString(<<"s">>)],
     [PlainRequest EXCEPT !.temperature = <<1>>, !.tools = <<<<ToolDefinition>>>>,
                          !.tool_choice = <<[type |-> "auto", name |-> Absent]>>],
     [PlainRequest EXCEPT !.max_tokens = 32, !.temperature = <<0>>, !.tools = <<<<>>>>,
                          !.tool_choice = <<[type |-> "tool", name |-> <<"f">>]>>,
                          !.system = SystemString(<<>>)],
     [PlainRequest EXCEPT !.max_tokens = 2, !.top_p = <<1>>, !.stop_sequences = <<<<"END">>>>,
                          !.tools = <<<<ToolDefinition, ToolDefinition>>>>,
                          !.tool_choice = <<[type |-> "any", name |-> Absent]>>,
                          !.system = SystemArray(<<<<"a">>, <<"b">>>>)],
     [PlainRequest EXCEPT !.tools = <<<<ToolDefinition>>>>,
                          !.system = SystemString(<<"s", ClaudeCodeIdentifier, "t",
                                                    ClaudeCodeIdentifier>>)],
     [PlainRequest EXCEPT !.tools = <<<<ToolDefinition>>>>, !.system = SystemArray(<<>>)]}

\* strings.join(separator)
RECURSIVE Join(_, _)
Join(strings, separator) ==
    IF strings = <<>> THEN <<>>
    ELSE IF Len(strings) = 1 THEN strings[1]
    ELSE strings[1] \o separator \o Join(Tail(strings), separator)

\* the system content as one string (request.ts:253-255)
SystemContent(system) == IF system.isString THEN system.text ELSE Join(system.parts, Newline)

\* the replacement text, with the update notice when a new version is cached
Replacement(hasUpdate) ==
    IF hasUpdate THEN <<"You are Claude Code, running on Claude Adapter", "IMPORTANT: update">>
    ELSE <<"You are Claude Code, running on Claude Adapter">>

\* modifySystemPromptForClaudeAdapter: String.replace rewrites the first occurrence
ModifySystemPromptForClaudeAdapter(systemContent, hasUpdate) ==
    IF \E i \in DOMAIN systemContent : systemContent[i] = ClaudeCodeIdentifier
    THEN LET first == CHOOSE i \in DOMAIN systemContent :
                          /\ systemContent[i] = ClaudeCodeIdentifier
                          /\ \A j \in 1..(i - 1) : systemContent[j] # ClaudeCodeIdentifier
         IN  SubSeq(systemContent, 1, first - 1) \o Replacement(hasUpdate)
                 \o SubSeq(systemContent, first + 1, Len(systemContent))
    ELSE systemContent

\* `if (anthropicRequest.system)`: undefined and '' are falsy, an array is truthy
HasSystem(req) == req.system # Absent /\ ~(req.system[1].isString /\ req.system[1].text = <<>>)

\* "Handle system prompt - becomes first message with role: system"
SystemPromptMessages(req, hasUpdate) ==
    IF HasSystem(req)
    THEN <<Message("system",
                   ModifySystemPromptForClaudeAdapter(SystemContent(req.system[1]), hasUpdate))>>
    ELSE <<>>

\* escapeXml, character by character
EscapeXml(str) ==
    Flatten([i \in DOMAIN str |->
                IF str[i] = "&" THEN <<"&", "a", "m", "p", ";">>
                ELSE IF str[i] = "<" THEN <<"&", "l", "t", ";">>
                ELSE IF str[i] = ">" THEN <<"&", "g", "t", ";">>
                ELSE IF str[i] = "quote" THEN <<"&", "q", "u", "o", "t", ";">>
                ELSE IF str[i] = "'" THEN <<"&", "a", "p", "o", "s", ";">>
                ELSE <<str[i]>>])

\* generateXmlToolInstructions: the fixed text, then one entry per tool
GenerateXmlToolInstructions(tools) ==
    IF Len(tools) = 0 THEN <<>>
    ELSE <<"# TOOL CALLING FORMAT">>
             \o JoinBlankLine([i \in DOMAIN tools |->
                                  tools[i].name \o <<":">> \o EscapeXml(tools[i].description)
                                      \o <<"Parameters:">> \o tools[i].input_schema])

\* an injection that always creates a new system message
InjectXmlInstructionsUnshift(msgs, req, format) ==
    IF format = "xml" /\ req.tools # Absent /\ Len(req.tools[1]) > 0
    THEN <<Message("system", GenerateXmlToolInstructions(req.tools[1]))>> \o msgs
    ELSE msgs

\* "XML mode: inject tool instructions into system prompt" (request.ts:266-276)
InjectXmlInstructions(msgs, req, format) ==
    IF format = "xml" /\ req.tools # Absent /\ Len(req.tools[1]) > 0
    THEN IF Len(msgs) > 0 /\ msgs[1].role = "system"
         THEN <<[msgs[1] EXCEPT !.content =
                    @ \o Newline \o Newline \o GenerateXmlToolInstructions(req.tools[1])]>>
                  \o Tail(msgs)
         ELSE <<Message("system", GenerateXmlToolInstructions(req.tools[1]))>> \o msgs
    ELSE msgs

\* a mapping that passes max_tokens through
MaxTokensUnchanged(max_tokens) == max_tokens

\* "Claude Code uses max_tokens: 1 ... Convert to 32" (request.ts:297)
MaxTokens(max_tokens) == IF max_tokens = 1 THEN 32 ELSE max_tokens

\* a temperature that is passed through in every mode
TemperatureUnchanged(req, format) == req.temperature

\* the temperature field (request.ts:311-319)
Temperature(req, format) == IF format = "xml" THEN <<0>> ELSE req.temperature

\* convertToolsToOpenAI
ConvertToolsToOpenAI(tools) ==
    [i \in DOMAIN tools |-> [type |-> "function", name |-> tools[i].name,
                             description |-> tools[i].description,
                             parameters |-> tools[i].input_schema]]

\* convertToolChoiceToOpenAI
ConvertToolChoiceToOpenAI(toolChoice) ==
    IF toolChoice.type = "any" THEN [type |-> "required", name |-> Absent]
    ELSE IF toolChoice.type = "tool" /\ toolChoice.name # Absent
    THEN [type |-> "function", name |-> toolChoice.name]
    ELSE [type |-> "auto", name |-> Absent]

\* a tools field that is converted in every mode
ToolsInEveryMode(req, format) ==
    IF req.tools # Absent /\ Len(req.tools[1]) > 0
    THEN <<ConvertToolsToOpenAI(req.tools[1])>>
    ELSE Absent

\* "Convert tools (only in native mode)" (request.ts:329-332)
Tools(req, format) ==
    IF format = "native" /\ req.tools # Absent /\ Len(req.tools[1]) > 0
    THEN <<ConvertToolsToOpenAI(req.tools[1])>>
    ELSE Absent

\* the tool_choice field (request.ts:333-335)
ToolChoice(req, format) ==
    IF format = "native" /\ req.tool_choice # Absent
    THEN <<ConvertToolChoiceToOpenAI(req.tool_choice[1])>>
    ELSE Absent

\* openaiRequest without its messages
OpenAIRequest(req, format) ==
    [max_tokens |-> MaxTokens(req.max_tokens),
     stream |-> req.stream,
     stream_options |-> IF req.stream THEN <<[include_usage |-> TRUE]>> ELSE Absent,
     temperature |-> Temperature(req, format),
     top_p |-> req.top_p,
     stop |-> req.stop_sequences,
     tools |-> Tools(req, format),
     tool_choice |-> ToolChoice(req, format)]

\* the call begins: the system message is built before the message loop; the
\* update cache holds a newer version or not
HandleSystemPrompt(hasUpdate) ==
    /\ converter = "request"
    /\ reqPc = "start"
    /\ reqPc' = "converting"
    /\ messages' = InjectXmlInstructions(SystemPromptMessages(anthropicRequest[1], hasUpdate),
                                         anthropicRequest[1], toolFormat)
    /\ UNCHANGED <<converter, respVars, srvVars, mappedBefore, toolFormat, anthropicRequest, openaiRequest,
                   anthropicMsgs, idDedup, procVars, natVars, xmlVars>>

\* the message loop is over: the request is built and returned
ReturnRequest ==
    /\ converter = "request"
    /\ reqPc = "converting"
    /\ reqPc' = "returned"
    /\ openaiRequest' = <<OpenAIRequest(anthropicRequest[1], toolFormat)>>
    /\ UNCHANGED <<converter, respVars, srvVars, mappedBefore, toolFormat, anthropicRequest, anthropicMsgs, messages,
                   idDedup, procVars, natVars, xmlVars>>

\* the tool_use ids of messages with content blocks
ToolUseIds(msgs) ==
    UNION {{msgs[m].content[i].id :
               i \in {j \in DOMAIN msgs[m].content : msgs[m].content[j].type = "tool_use"}} :
           m \in DOMAIN msgs}

\* a call that goes on with the table of the call before it
ConvertRequestOfNextPooled ==
    /\ converter = "request"
    /\ reqPc = "returned"
    /\ mappedBefore' = mappedBefore \cup ToolUseIds(anthropicMsgs)
    /\ reqPc' = "start"
    /\ openaiRequest' = Absent
    /\ anthropicMsgs' = <<>>
    /\ messages' = <<>>
    /\ idDedup' = idDedup
    /\ UNCHANGED <<converter, respVars, srvVars, toolFormat, anthropicRequest, procVars,
                   natVars, xmlVars>>

\* the server calls convertRequestToOpenAI for the next request: the call has
\* its own messages array and its own idDeduplication object
ConvertRequestOfNext ==
    /\ converter = "request"
    /\ reqPc = "returned"
    /\ mappedBefore' = mappedBefore \cup ToolUseIds(anthropicMsgs)
    /\ reqPc' = "start"
    /\ openaiRequest' = Absent
    /\ anthropicMsgs' = <<>>
    /\ messages' = <<>>
    /\ idDedup' = EmptyCtx
    /\ UNCHANGED <<converter, respVars, srvVars, toolFormat, anthropicRequest, procVars,
                   natVars, xmlVars>>

InitRequestVars ==
    /\ mappedBefore = {}
    /\ toolFormat = "native"
    /\ anthropicRequest = <<PlainRequest>>
    /\ openaiRequest = Absent
    /\ reqPc = "start"
    /\ anthropicMsgs = <<>>
    /\ messages = <<>>
    /\ idDedup = EmptyCtx

\* conversations with repeated tool ids, in native mode
NextRequest ==
    \/ \E blocks \in UserBlockLists : ConvertUserBlocks(blocks)
    \/ \E blocks \in AssistantBlockLists : ConvertAssistantBlocks(blocks)
    \/ \E hasUpdate \in BOOLEAN : HandleSystemPrompt(hasUpdate)
    \/ ReturnRequest

\* one request after another, each a conversation of tool calls and results
NextRequests ==
    \/ \E blocks \in {<<ToolResultBlock(i)>> : i \in IdPool} : ConvertUserBlocks(blocks)
    \/ \E blocks \in BlockLists({ToolUseBlock(i) : i \in IdPool}) : ConvertAssistantBlocks(blocks)
    \/ HandleSystemPrompt(FALSE)
    \/ ReturnRequest
    \/ ConvertRequestOfNext

-----------------------------------------------------------------------------
(* Requests of every shape, in both modes *)

\* three backticks
CodeFence == <<"backtick", "backtick", "backtick">>

\* `<tool_code name="f">`, an opening tag left for the model to complete
OpenToolCode == ToolCodeStart \o <<" ", "n", "a", "m", "e", "=", "quote", "f", "quote", ">">>

\* `<tool_code name="f">{}</tool_code>`, a complete call
CompleteToolCode == OpenToolCode \o <<"{", "}">> \o ToolCodeEnd

\* the string contents of assistant messages
AssistantStrings == {AssistantText, PrefillText, CodeFence, OpenToolCode, CompleteToolCode}

\* the block lists of user messages
MapperUserBlockLists ==
    {<<TextBlock(UserText)>>, <<TextBlock(UserText), ToolResultBlock(ShortId)>>,
     <<ToolResultBlock(ShortId), TextBlock(UserText), ToolResultBlock(LongId),
       TextBlock(AssistantText)>>}

\* the block lists of assistant messages
MapperAssistantBlockLists ==
    {<<>>, <<TextBlock(<<>>)>>, <<TextBlock(AssistantText)>>, <<TextBlock(PrefillText)>>,
     <<TextBlock(AssistantText), ToolUseBlock(ShortId)>>}

NextMapper ==
    \/ ConvertUserString(UserText)
    \/ \E content \in AssistantStrings : ConvertAssistantString(content)
    \/ \E blocks \in MapperUserBlockLists : ConvertUserBlocks(blocks)
    \/ \E blocks \in MapperAssistantBlockLists : ConvertAssistantBlocks(blocks)
    \/ \E hasUpdate \in BOOLEAN : HandleSystemPrompt(hasUpdate)
    \/ ReturnRequest

-----------------------------------------------------------------------------
(* Native stream re-emitter: events *)

\* block: the content block type, the delta type, the stop reason or the error type
Event(type, index, block, id, name, data) ==
    [type |-> type, index |-> index, block |-> block, id |-> id, name |-> name,
     data |-> data]

\* sendMessageStart; data: input_tokens, output_tokens, cache_read_input_tokens
MessageStartEvent(state) ==
    Event("message_start", -1, "", <<>>, <<>>,
          <<state.inputTokens, state.outputTokens, state.cachedInputTokens>>)

\* sendContentBlockStart
ContentBlockStart(index, block, id, name) ==
    Event("content_block_start", index, block, id, name, <<>>)

\* sendTextDelta
TextDelta(index, text) == Event("content_block_delta", index, "text_delta", <<>>, <<>>, text)

\* sendInputJsonDelta
InputJsonDelta(index, json) ==
    Event("content_block_delta", index, "input_json_delta", <<>>, <<>>, json)

\* sendContentBlockStop
ContentBlockStop(index) == Event("content_block_stop", index, "", <<>>, <<>>, <<>>)

\* the message_delta of finishStream; data: output_tokens, cache_read_input_tokens
MessageDeltaEvent(stopReason, state) ==
    Event("message_delta", -1, stopReason, <<>>, <<>>,
          <<state.outputTokens, state.cachedInputTokens>>)

MessageStopEvent == Event("message_stop", -1, "", <<>>, <<>>, <<>>)

ErrorEvent(message) == Event("error", -1, "api_error", <<>>, <<>>, message)

-----------------------------------------------------------------------------
(* Native stream re-emitter: the process-wide tool ids *)

Range(s) == {s[i] : i \in DOMAIN s}

\* the ids a backend supplies; <<>> is a missing or empty id
NoId == <<>>

BackendIds == {NoId, <<"x">>}

\* call_${timestamp}_${counter}_${random}: the counter stands for the string
GeneratedId(counter) == <<"call", counter>>

\* the do-while loop of generateUniqueToolId: [id, counter]
RECURSIVE GenerateLoop(_, _)
GenerateLoop(used, counter) ==
    LET id == GeneratedId(counter + 1) IN
    IF id \in Range(used) THEN GenerateLoop(used, counter + 1)
    ELSE [id |-> id, counter |-> counter + 1]

\* the cleanup of generateUniqueToolId: beyond the limit the oldest ids are deleted
CleanUp(used) ==
    IF Len(used) > UsedToolIdsLimit
    THEN SubSeq(used, UsedToolIdsEvict + 1, Len(used))
    ELSE used

\* generateUniqueToolId: [id, used, counter]
GenerateUniqueToolId(used, counter) ==
    LET g == GenerateLoop(used, counter) IN
    [id |-> g.id, used |-> CleanUp(Append(used, g.id)), counter |-> g.counter]

\* an id selection that never keeps the backend's id
ChooseToolIdAlwaysGenerated(backendId, used, counter) ==
    GenerateUniqueToolId(used, counter)

\* the id selection of processToolCallDelta (xmlPrompt.ts:517-523): [id, used, counter]
ChooseToolId(backendId, used, counter) ==
    IF backendId # NoId /\ backendId \notin Range(used)
    THEN [id |-> backendId, used |-> Append(used, backendId), counter |-> counter]
    ELSE GenerateUniqueToolId(used, counter)

-----------------------------------------------------------------------------
(* Native stream re-emitter: chunks *)

NoText == <<>>

\* chunk.usage is absent
NoUsage == <<>>

\* a usage object without prompt_tokens_details
PlainUsage == <<[prompt_tokens |-> 10, completion_tokens |-> 5, cached_tokens |-> <<>>]>>

\* a usage object with prompt_tokens_details.cached_tokens
CachedUsage == <<[prompt_tokens |-> 12, completion_tokens |-> 7, cached_tokens |-> <<4>>]>>

\* chunk.usage.prompt_tokens_details?.cached_tokens ?? 0
CachedTokens(usage) ==
    IF usage[1].cached_tokens = <<>> THEN 0 ELSE usage[1].cached_tokens[1]

\* a chunk whose choices array is empty
NoChoiceChunk ==
    [choice |-> FALSE, content |-> NoText, tool_calls |-> <<>>, finish_reason |-> FALSE,
     usage |-> NoUsage]

\* the chunk that carries the usage of the stream: its choices array is empty
UsageChunk == [NoChoiceChunk EXCEPT !.usage = CachedUsage]

TextChunk ==
    [choice |-> TRUE, content |-> <<"T">>, tool_calls |-> <<>>, finish_reason |-> FALSE,
     usage |-> NoUsage]

ToolCallDelta(index, id) ==
    [index |-> index, id |-> id, name |-> <<"f">>, arguments |-> <<"{}">>]

ToolChunk(index, id) ==
    [choice |-> TRUE, content |-> NoText, tool_calls |-> <<ToolCallDelta(index, id)>>,
     finish_reason |-> FALSE, usage |-> NoUsage]

FinishChunk ==
    [choice |-> TRUE, content |-> NoText, tool_calls |-> <<>>, finish_reason |-> TRUE,
     usage |-> NoUsage]

\* a finish chunk that carries usage as well
FinishUsageChunk == [FinishChunk EXCEPT !.usage = PlainUsage]

\* the positions a backend gives to its tool calls
ToolPositions == {0, 1}

NativeChunks ==
    {NoChoiceChunk, UsageChunk, TextChunk, FinishChunk, FinishUsageChunk}
        \cup {ToolChunk(i, d) : i \in ToolPositions, d \in BackendIds}

-----------------------------------------------------------------------------
(* Native stream re-emitter: processChunk *)

\* the StreamingState of a new stream; currentToolCalls is a Map, kept in insertion order
NewStreamingState ==
    [contentBlockIndex |-> 0, currentToolCalls |-> <<>>, inputTokens |-> 0,
     outputTokens |-> 0, cachedInputTokens |-> 0, hasStarted |-> FALSE,
     textContent |-> NoText]

\* what one call works on: the stream's state and events, and the process state
Work(state, events, used, counter) ==
    [state |-> state, events |-> events, used |-> used, counter |-> counter]

HasToolCall(state, index) == \E i \in DOMAIN state.currentToolCalls : state.currentToolCalls[i].index = index

Send(w, event) == [w EXCEPT !.events = Append(@, event)]

\* a close that happens only before the first tool call of the stream
CloseTextBeforeToolFirstCall(w) ==
    IF w.state.textContent # NoText /\ w.state.currentToolCalls = <<>>
    THEN [Send(w, ContentBlockStop(w.state.contentBlockIndex))
            EXCEPT !.state.contentBlockIndex = @ + 1]
    ELSE w

\* "Close any previous text block first" (xmlPrompt.ts:509-512)
CloseTextBeforeTool(w) ==
    IF w.state.textContent # NoText /\ w.state.contentBlockIndex = 0
    THEN [Send(w, ContentBlockStop(w.state.contentBlockIndex))
            EXCEPT !.state.contentBlockIndex = @ + 1]
    ELSE w

\* the new-tool-call branch of processToolCallDelta (xmlPrompt.ts:507-535)
OpenToolCall(w0, toolCall) ==
    LET w == CloseTextBeforeTool(w0)
        c == ChooseToolId(toolCall.id, w.used, w.counter)
        newToolCall == [index |-> toolCall.index, id |-> c.id, name |-> toolCall.name,
                        arguments |-> <<>>]
        blockIndex == w.state.contentBlockIndex + toolCall.index
    IN  [Send(w, ContentBlockStart(blockIndex, "tool_use", c.id, newToolCall.name))
            EXCEPT !.state.currentToolCalls = Append(@, newToolCall),
                   !.used = c.used,
                   !.counter = c.counter]

\* the update part of processToolCallDelta (xmlPrompt.ts:537-548)
UpdateToolCall(w, toolCall) ==
    LET pos == CHOOSE i \in DOMAIN w.state.currentToolCalls :
                   w.state.currentToolCalls[i].index = toolCall.index
        blockIndex == w.state.contentBlockIndex + toolCall.index
    IN  IF toolCall.arguments # <<>>
        THEN [Send(w, InputJsonDelta(blockIndex, toolCall.arguments))
                EXCEPT !.state.currentToolCalls[pos].arguments = @ \o toolCall.arguments,
                       !.state.currentToolCalls[pos].name =
                           IF toolCall.name # <<>> THEN toolCall.name ELSE @]
        ELSE [w EXCEPT !.state.currentToolCalls[pos].name =
                           IF toolCall.name # <<>> THEN toolCall.name ELSE @]

ProcessToolCallDelta(w, toolCall) ==
    UpdateToolCall(IF HasToolCall(w.state, toolCall.index) THEN w
                   ELSE OpenToolCall(w, toolCall),
                   toolCall)

RECURSIVE ProcessToolCalls(_, _)
ProcessToolCalls(w, toolCalls) ==
    IF toolCalls = <<>> THEN w
    ELSE ProcessToolCalls(ProcessToolCallDelta(w, Head(toolCalls)), Tail(toolCalls))

\* "Send message_start on first chunk" (xmlPrompt.ts:451-455)
StartMessage(w) ==
    IF ~w.state.hasStarted
    THEN [Send(w, MessageStartEvent(w.state)) EXCEPT !.state.hasStarted = TRUE]
    ELSE w

\* "Handle text content" (xmlPrompt.ts:459-468)
HandleText(w, content) ==
    IF content = NoText THEN w
    ELSE LET started == IF w.state.textContent = NoText /\ w.state.contentBlockIndex = 0
                        THEN Send(w, ContentBlockStart(w.state.contentBlockIndex, "text", <<>>, <<>>))
                        ELSE w
         IN  [Send(started, TextDelta(w.state.contentBlockIndex, content))
                EXCEPT !.state.textContent = @ \o content]

\* the content_block_stop events of the open tool calls (xmlPrompt.ts:492-495)
ToolCallStops(state) ==
    [i \in DOMAIN state.currentToolCalls |-> ContentBlockStop(state.currentToolCalls[i].index)]

\* "Update usage if present" (xmlPrompt.ts:477-482, xmlStreaming.ts:81-86)
UpdateUsage(state, usage) ==
    IF usage = NoUsage THEN state
    ELSE [state EXCEPT !.inputTokens = usage[1].prompt_tokens,
                       !.outputTokens = usage[1].completion_tokens,
                       !.cachedInputTokens = CachedTokens(usage)]

\* "Handle finish reason" (xmlPrompt.ts:484-496)
HandleFinishReason(w, finish) ==
    IF ~finish THEN w
    ELSE LET closed == IF w.state.textContent # NoText
                       THEN [Send(w, ContentBlockStop(w.state.contentBlockIndex))
                                EXCEPT !.state.contentBlockIndex = @ + 1]
                       ELSE w
         IN  [closed EXCEPT !.events = @ \o ToolCallStops(closed.state)]

\* processChunk
ProcessChunkWork(w, chunk) ==
    IF ~chunk.choice THEN w
    ELSE LET called == ProcessToolCalls(HandleText(StartMessage(w), chunk.content),
                                        chunk.tool_calls)
         IN  HandleFinishReason([called EXCEPT !.state = UpdateUsage(@, chunk.usage)],
                                chunk.finish_reason)

\* a finishStream whose stop reason ignores the tool calls
FinishStreamEventsEndTurn(state) ==
    <<MessageDeltaEvent("end_turn", state), MessageStopEvent>>

\* finishStream: the events it sends
FinishStreamEvents(state) ==
    <<MessageDeltaEvent(IF Len(state.currentToolCalls) > 0 THEN "tool_use" ELSE "end_turn",
                        state),
      MessageStopEvent>>

\* an error path that also closes the message
SendErrorEventsAndStop(message) == <<ErrorEvent(message), MessageStopEvent>>

\* sendErrorEvent: the events it sends
SendErrorEvents(message) == <<ErrorEvent(message)>>

\* the messages of the exceptions a backend stream raises
ErrorMessages == {<<"Stream connection lost">>, <<"aborted">>}

NotThrown == [raised |-> FALSE, message |-> <<>>, sent |-> 0]

Thrown(message, events) == [raised |-> TRUE, message |-> message, sent |-> Len(events)]

-----------------------------------------------------------------------------
(* Native stream re-emitter: actions *)

\* chunk.choices[0]?.finish_reason is set
FinishReason(chunk) == chunk.choice /\ chunk.finish_reason

\* one turn of `for await (const chunk of openaiStream) processChunk(chunk, state, raw)`
NativeChunk(chunk) ==
    /\ converter = "native"
    /\ natPc = "iterating"
    /\ natChunkCount < MaxChunks
    /\ toolIdCounter < MaxToolIdCounter
    /\ LET w == ProcessChunkWork(Work(natState, natEvents, usedToolIds, toolIdCounter), chunk) IN
       /\ natState' = w.state
       /\ natEvents' = w.events
       /\ usedToolIds' = w.used
       /\ toolIdCounter' = w.counter
    /\ natChunkCount' = natChunkCount + 1
    /\ natToolDeltas' = natToolDeltas \o (IF chunk.choice THEN chunk.tool_calls ELSE <<>>)
    /\ natFinishes' = [count |-> natFinishes.count + (IF FinishReason(chunk) THEN 1 ELSE 0),
                       last |-> FinishReason(chunk)]
    /\ natUsage' = IF chunk.usage # NoUsage THEN chunk.usage ELSE natUsage
    /\ UNCHANGED <<converter, respVars, srvVars, reqVars, natPc, natEnded, natThrown, xmlVars>>

\* the backend sequence ends: finishStream
NativeFinish ==
    /\ converter = "native"
    /\ natPc = "iterating"
    /\ natEvents' = natEvents \o FinishStreamEvents(natState)
    /\ natEnded' = TRUE
    /\ natPc' = "finished"
    /\ UNCHANGED <<converter, respVars, srvVars, reqVars, procVars, natReceived, natState, natThrown, xmlVars>>

\* iterating the backend sequence raises: the catch block, sendErrorEvent
NativeError(message) ==
    /\ converter = "native"
    /\ natPc = "iterating"
    /\ natEvents' = natEvents \o SendErrorEvents(message)
    /\ natEnded' = TRUE
    /\ natPc' = "errored"
    /\ natThrown' = Thrown(message, natEvents)
    /\ UNCHANGED <<converter, respVars, srvVars, reqVars, procVars, natReceived, natState, xmlVars>>

\* another stream of the process opens a tool call: its processToolCallDelta selects
\* the id on the same usedToolIds and toolIdCounter
OtherStreamOpensToolCall(backendId) ==
    /\ converter = "native"
    /\ toolIdCounter < MaxToolIdCounter
    /\ LET c == ChooseToolId(backendId, usedToolIds, toolIdCounter) IN
       /\ usedToolIds' = c.used
       /\ toolIdCounter' = c.counter
    /\ UNCHANGED <<converter, respVars, srvVars, reqVars, natVars, xmlVars>>

\* the ids the backends of the other streams supply: none, the ids this stream's
\* backend uses, and one that looks like a generated id
OtherBackendIds == BackendIds \cup {GeneratedId(1)}

InitProcVars ==
    /\ usedToolIds = <<>>
    /\ toolIdCounter = 0

InitNativeVars ==
    /\ natPc = "iterating"
    /\ natChunkCount = 0
    /\ natToolDeltas = <<>>
    /\ natFinishes = [count |-> 0, last |-> FALSE]
    /\ natUsage = NoUsage
    /\ natState = NewStreamingState
    /\ natEvents = <<>>
    /\ natEnded = FALSE
    /\ natThrown = NotThrown

NextNative ==
    \/ \E chunk \in NativeChunks : NativeChunk(chunk)
    \/ NativeFinish
    \/ \E message \in ErrorMessages : NativeError(message)
    \/ \E backendId \in OtherBackendIds : OtherStreamOpensToolCall(backendId)

-----------------------------------------------------------------------------
(* Native stream re-emitter: tool calls that arrive in fragments *)

\* a later delta of a tool call: no id, no name, a fragment of the arguments
FragmentDelta(index, arguments) ==
    [index |-> index, id |-> NoId, name |-> <<>>, arguments |-> arguments]

\* the deltas of a tool call: the first with a name and arguments, an empty
\* fragment, a closing fragment
FragmentDeltas ==
    {ToolCallDelta(i, NoId) : i \in ToolPositions}
        \cup {FragmentDelta(i, a) : i \in ToolPositions, a \in {<<>>, <<"}">>}}

\* a chunk that carries tool-call deltas only
DeltasChunk(deltas) ==
    [choice |-> TRUE, content |-> NoText, tool_calls |-> deltas, finish_reason |-> FALSE,
     usage |-> NoUsage]

\* text and tool calls interleaved; one chunk opens position 1 and continues position 0
FragmentChunks ==
    {TextChunk, FinishChunk}
        \cup {DeltasChunk(<<d>>) : d \in FragmentDeltas}
        \cup {DeltasChunk(<<ToolCallDelta(1, NoId), FragmentDelta(0, <<"}">>)>>)}

NextNativeFragments ==
    \/ \E chunk \in FragmentChunks : NativeChunk(chunk)
    \/ NativeFinish

-----------------------------------------------------------------------------
(* XML stream re-emitter: text as a sequence of tokens *)

ThinkOpen == "<think>"

ThinkClose == "</think>"

ToolCodeOpen == "<tool_code name=a>"

ToolCodeClose == "</tool_code>"

PlainText == "t"

Blank == " "

\* the text units a backend delivers
Tokens == {ThinkOpen, ThinkClose, ToolCodeOpen, ToolCodeClose, PlainText, Blank}

\* the name captured by TOOL_CODE_PATTERN's first group
ToolNameOf(token) == IF token = ToolCodeOpen THEN <<"a">> ELSE <<>>

\* <tool name="..."> and </tool>, which cleanToolArgs removes
NestedToolTags == {"<tool name=a>", "</tool>"}

\* the first position of s from `from` on that holds a token of `set`, or 0
FirstIn(s, set, from) ==
    IF \E i \in from..Len(s) : s[i] \in set
    THEN CHOOSE i \in from..Len(s) : s[i] \in set /\ \A j \in from..(i - 1) : s[j] \notin set
    ELSE 0

\* text.replace(THINK_BLOCK_PATTERN, ''): every <think> up to the next </think> is removed
RECURSIVE StripThink(_)
StripThink(text) ==
    LET open == FirstIn(text, {ThinkOpen}, 1)
        close == IF open = 0 THEN 0 ELSE FirstIn(text, {ThinkClose}, open + 1)
    IN  IF close = 0 THEN text
        ELSE SubSeq(text, 1, open - 1) \o StripThink(SubSeq(text, close + 1, Len(text)))

\* text.match(TOOL_CODE_PATTERN): the leftmost opening tag that a closing tag follows,
\* up to the first closing tag after it
ToolMatch(text) ==
    LET open == FirstIn(text, {ToolCodeOpen}, 1)
        close == IF open = 0 THEN 0 ELSE FirstIn(text, {ToolCodeClose}, open + 1)
    IN  [found |-> close # 0, start |-> open, end |-> close]

\* the whitespace a \s* after a tag consumes
RECURSIVE TrimLeft(_)
TrimLeft(text) ==
    IF text # <<>> /\ Head(text) \in Whitespace THEN TrimLeft(Tail(text)) ELSE text

\* args.replace(NESTED_TOOL_PATTERN, '').replace(CLOSE_TOOL_PATTERN, '')
RECURSIVE DropNestedTags(_)
DropNestedTags(args) ==
    IF args = <<>> THEN args
    ELSE IF Head(args) \in NestedToolTags THEN DropNestedTags(TrimLeft(Tail(args)))
    ELSE <<Head(args)>> \o DropNestedTags(Tail(args))

\* cleanToolArgs; its third replace removes a leading "ToolName\n" line, which no
\* token sequence holds
CleanToolArgs(args) == Trim(DropNestedTags(args))

-----------------------------------------------------------------------------
(* XML stream re-emitter: processChunk and processBuffer *)

\* generateToolUseId: "toolu_" and 24 random characters, kept as one opaque value
ToolUseId == <<"toolu">>

NewBufferedState ==
    [contentBlockIndex |-> 0, inputTokens |-> 0, outputTokens |-> 0,
     cachedInputTokens |-> 0, hasStarted |-> FALSE, buffer |-> <<>>,
     toolCallsEmitted |-> 0]

XmlWork(state, events) == [state |-> state, events |-> events]

\* a text block that leaves contentBlockIndex where it is
EmitTextBlockSameIndex(w, text) ==
    [w EXCEPT !.events = @ \o <<ContentBlockStart(w.state.contentBlockIndex, "text", <<>>, <<>>),
                                TextDelta(w.state.contentBlockIndex, text),
                                ContentBlockStop(w.state.contentBlockIndex)>>]

\* emitTextBlock
EmitTextBlock(w, text) ==
    [w EXCEPT !.events = @ \o <<ContentBlockStart(w.state.contentBlockIndex, "text", <<>>, <<>>),
                                TextDelta(w.state.contentBlockIndex, text),
                                ContentBlockStop(w.state.contentBlockIndex)>>,
              !.state.contentBlockIndex = @ + 1]

\* emitToolUseBlock
EmitToolUseBlock(w, toolName, args) ==
    [w EXCEPT !.events = @ \o <<ContentBlockStart(w.state.contentBlockIndex, "tool_use",
                                                  ToolUseId, toolName),
                                InputJsonDelta(w.state.contentBlockIndex, args),
                                ContentBlockStop(w.state.contentBlockIndex)>>,
              !.state.contentBlockIndex = @ + 1,
              !.state.toolCallsEmitted = @ + 1]

\* a cut at the first closing tag, without the length of the tag
OriginalMatchEndBeforeTag(buffer) == FirstIn(buffer, {ToolCodeClose}, 1) - 1

\* where processBuffer cuts the buffer: after the first closing tag of the original
\* buffer (xmlStreaming.ts:144); indexOf gives -1 when there is none
OriginalMatchEnd(buffer) == FirstIn(buffer, {ToolCodeClose}, 1)

\* the loop condition of processBuffer: the cleaned buffer holds a complete tool call
HasToolMatch(buffer) == ToolMatch(StripThink(buffer)).found

\* one iteration of processBuffer's loop that found a tool call
ProcessBufferIteration(w) ==
    LET cleanBuffer == StripThink(w.state.buffer)
        toolMatch == ToolMatch(cleanBuffer)
        cleanText == Trim(SubSeq(cleanBuffer, 1, toolMatch.start - 1))
        rawArgs == SubSeq(cleanBuffer, toolMatch.start + 1, toolMatch.end - 1)
        texted == IF Len(cleanText) > 0 THEN EmitTextBlock(w, cleanText) ELSE w
        tooled == EmitToolUseBlock(texted, ToolNameOf(cleanBuffer[toolMatch.start]),
                                   CleanToolArgs(rawArgs))
    IN  [tooled EXCEPT !.state.buffer = SubSeq(@, OriginalMatchEnd(@) + 1, Len(@))]

\* processBuffer: the while loop
RECURSIVE ProcessBuffer(_)
ProcessBuffer(w) ==
    IF ~HasToolMatch(w.state.buffer) THEN w
    ELSE ProcessBuffer(ProcessBufferIteration(w))

\* flushRemainingContent
FlushRemainingContent(w) ==
    LET remainingText == Trim(StripThink(w.state.buffer)) IN
    IF Len(remainingText) > 0 THEN EmitTextBlock(w, remainingText) ELSE w

\* "Send message_start on first chunk" (xmlStreaming.ts:96-100)
XmlStartMessage(w) ==
    IF ~w.state.hasStarted
    THEN [w EXCEPT !.events = Append(@, MessageStartEvent(w.state)),
                   !.state.hasStarted = TRUE]
    ELSE w

\* processChunk
XmlProcessChunk(w0, chunk) ==
    LET w == [w0 EXCEPT !.state = UpdateUsage(@, chunk.usage)] IN
    IF ~chunk.choice THEN w
    ELSE IF chunk.content = <<>> THEN XmlStartMessage(w)
    ELSE ProcessBuffer([XmlStartMessage(w) EXCEPT !.state.buffer = @ \o chunk.content])

\* a finishStream whose stop reason ignores the tool calls emitted
XmlFinishStreamEventsEndTurn(state) ==
    <<MessageDeltaEvent("end_turn", state), MessageStopEvent>>

\* finishStream: the events it sends
XmlFinishStreamEvents(state) ==
    <<MessageDeltaEvent(IF state.toolCallsEmitted > 0 THEN "tool_use" ELSE "end_turn",
                        state),
      MessageStopEvent>>

\* sendErrorEvent: the events it sends
XmlSendErrorEvents(message) == <<ErrorEvent(message)>>

\* token sequences of length n
RECURSIVE TokenSeqs(_)
TokenSeqs(n) ==
    IF n = 0 THEN {<<>>}
    ELSE {Append(t, k) : t \in TokenSeqs(n - 1), k \in Tokens}

\* the text deltas of at most n tokens; the empty one is a chunk without content
TextDeltas(n) == UNION {TokenSeqs(k) : k \in 0..n}

\* the chunks that carry a text delta
XmlTextChunks == {[choice |-> TRUE, content |-> content, usage |-> <<>>]
                     : content \in TextDeltas(MaxChunkTokens)}

XmlNoChoiceChunk == [choice |-> FALSE, content |-> <<>>, usage |-> NoUsage]

\* the chunk that carries the usage of the stream: its choices array is empty
XmlUsageChunk == [XmlNoChoiceChunk EXCEPT !.usage = CachedUsage]

XmlTextChunk(content) == [choice |-> TRUE, content |-> content, usage |-> NoUsage]

\* a chunk with a choice and an empty delta that carries usage
XmlFinishUsageChunk == [XmlTextChunk(<<>>) EXCEPT !.usage = PlainUsage]

-----------------------------------------------------------------------------
(* XML stream re-emitter: actions *)

\* one turn of `for await (const chunk of openaiStream) processChunk(chunk, state, raw)`
XmlChunk(chunk) ==
    /\ converter = "xml"
    /\ xmlPc = "iterating"
    /\ xmlChunkCount < MaxChunks
    /\ Len(xmlText) + Len(chunk.content) <= MaxStreamTokens
    /\ LET w == XmlProcessChunk(XmlWork(xmlState, xmlEvents), chunk) IN
       /\ xmlState' = w.state
       /\ xmlEvents' = w.events
    /\ xmlChunkCount' = xmlChunkCount + 1
    /\ xmlText' = xmlText \o chunk.content
    /\ xmlUsage' = IF chunk.usage # NoUsage THEN chunk.usage ELSE xmlUsage
    /\ UNCHANGED <<converter, respVars, srvVars, reqVars, procVars, natVars, xmlPc, xmlEnded, xmlThrown>>

\* the backend sequence ends: flushRemainingContent, then finishStream
XmlFinish ==
    /\ converter = "xml"
    /\ xmlPc = "iterating"
    /\ LET w == FlushRemainingContent(XmlWork(xmlState, xmlEvents)) IN
       /\ xmlState' = w.state
       /\ xmlEvents' = w.events \o XmlFinishStreamEvents(w.state)
    /\ xmlEnded' = TRUE
    /\ xmlPc' = "finished"
    /\ UNCHANGED <<converter, respVars, srvVars, reqVars, procVars, natVars, xmlChunkCount, xmlText, xmlUsage,
                   xmlThrown>>

\* iterating the backend sequence raises: the catch block, sendErrorEvent
XmlError(message) ==
    /\ converter = "xml"
    /\ xmlPc = "iterating"
    /\ xmlEvents' = xmlEvents \o XmlSendErrorEvents(message)
    /\ xmlEnded' = TRUE
    /\ xmlPc' = "errored"
    /\ xmlThrown' = Thrown(message, xmlEvents)
    /\ UNCHANGED <<converter, respVars, srvVars, reqVars, procVars, natVars, xmlChunkCount, xmlText, xmlUsage,
                   xmlState>>

\* processBuffer's loop runs once more: the buffer holds a complete tool call
ProcessBufferLoop ==
    /\ converter = "buffer"
    /\ xmlPc = "looping"
    /\ HasToolMatch(xmlState.buffer)
    /\ LET w == ProcessBufferIteration(XmlWork(xmlState, xmlEvents)) IN
       /\ xmlState' = w.state
       /\ xmlEvents' = w.events
    /\ UNCHANGED <<converter, respVars, srvVars, reqVars, procVars, natVars, xmlPc, xmlChunkCount,
                   xmlText, xmlUsage, xmlEnded, xmlThrown>>

\* "No complete tool call found, exit loop"
ProcessBufferBreak ==
    /\ converter = "buffer"
    /\ xmlPc = "looping"
    /\ ~HasToolMatch(xmlState.buffer)
    /\ xmlPc' = "left"
    /\ UNCHANGED <<converter, respVars, srvVars, reqVars, procVars, natVars, xmlChunkCount, xmlText,
                   xmlUsage, xmlState, xmlEvents, xmlEnded, xmlThrown>>

\* processChunk has appended the first text delta of a stream to the buffer and
\* calls processBuffer
InitBufferVars ==
    /\ xmlPc = "looping"
    /\ xmlChunkCount = 1
    /\ xmlText \in TextDeltas(MaxStreamTokens) \ {<<>>}
    /\ xmlUsage = NoUsage
    /\ LET w == XmlStartMessage(XmlWork(NewBufferedState, <<>>)) IN
       /\ xmlState = [w.state EXCEPT !.buffer = xmlText]
       /\ xmlEvents = w.events
    /\ xmlEnded = FALSE
    /\ xmlThrown = NotThrown

NextBuffer == ProcessBufferLoop \/ ProcessBufferBreak

InitXmlVars ==
    /\ xmlPc = "iterating"
    /\ xmlChunkCount = 0
    /\ xmlText = <<>>
    /\ xmlUsage = NoUsage
    /\ xmlState = NewBufferedState
    /\ xmlEvents = <<>>
    /\ xmlEnded = FALSE
    /\ xmlThrown = NotThrown

NextXml ==
    \/ \E chunk \in {XmlNoChoiceChunk, XmlUsageChunk, XmlFinishUsageChunk} : XmlChunk(chunk)
    \/ \E chunk \in XmlTextChunks : XmlChunk(chunk)
    \/ XmlFinish
    \/ \E message \in ErrorMessages : XmlError(message)

-----------------------------------------------------------------------------
(* Response mapper: JSON.parse over a small JSON grammar *)

\* JSON texts are sequences of the tokens { } k : , 1 where k is a quoted key:
\*   value ::= 1 | { } | { k : value (, k : value)* }
JsonNumber == [type |-> "number", members |-> <<>>]

JsonObject(members) == [type |-> "object", members |-> members]

\* JSON.parse throws SyntaxError
SyntaxError == [ok |-> FALSE, next |-> 0, value |-> JsonNumber]

RECURSIVE ParseValue(_, _)
RECURSIVE ParseMembers(_, _, _)

\* the value that starts at token i, and the position after it
ParseValue(s, i) ==
    IF i > Len(s) THEN SyntaxError
    ELSE IF s[i] = "1" THEN [ok |-> TRUE, next |-> i + 1, value |-> JsonNumber]
    ELSE IF s[i] = "{" THEN ParseMembers(s, i + 1, <<>>)
    ELSE SyntaxError

\* the members of an object whose opening brace was read
ParseMembers(s, i, members) ==
    IF i > Len(s) THEN SyntaxError
    ELSE IF s[i] = "}" /\ members = <<>>
    THEN [ok |-> TRUE, next |-> i + 1, value |-> JsonObject(<<>>)]
    ELSE IF i + 1 <= Len(s) /\ s[i] = "k" /\ s[i + 1] = ":"
    THEN LET v == ParseValue(s, i + 2)
         IN  IF ~v.ok \/ v.next > Len(s) THEN SyntaxError
             ELSE IF s[v.next] = "}"
             THEN [ok |-> TRUE, next |-> v.next + 1,
                   value |-> JsonObject(Append(members, v.value))]
             ELSE IF s[v.next] = ","
             THEN ParseMembers(s, v.next + 1, Append(members, v.value))
             ELSE SyntaxError
    ELSE SyntaxError

\* JSON.parse(text): the whole text is one value
JsonParse(text) ==
    LET r == ParseValue(text, 1)
    IN  IF r.ok /\ r.next = Len(text) + 1 THEN r ELSE SyntaxError

-----------------------------------------------------------------------------
(* Response mapper: convertResponseToAnthropic *)

\* a tool_use block whose input is the parsed arguments or { raw: arguments }
ToolUse(toolCall, input) ==
    [type |-> "tool_use", text |-> <<>>, id |-> toolCall.id, name |-> toolCall.name,
     input |-> input]

\* the input JSON.parse returned
Parsed(value) == [raw |-> Absent, parsed |-> <<value>>]

\* the input { raw: arguments }
Raw(arguments) == [raw |-> <<arguments>>, parsed |-> Absent]

\* the exception leaves convertToolCallToToolUse
Uncaught == [type |-> "SyntaxError"]

\* convertToolCallToToolUse without its try/catch
ConvertToolCallToToolUseNoCatch(toolCall) ==
    LET r == JsonParse(toolCall.arguments)
    IN  IF r.ok THEN ToolUse(toolCall, Parsed(r.value)) ELSE Uncaught

\* convertToolCallToToolUse
ConvertToolCallToToolUse(toolCall) ==
    LET r == JsonParse(toolCall.arguments)
    IN  IF r.ok THEN ToolUse(toolCall, Parsed(r.value))
        ELSE ToolUse(toolCall, Raw(toolCall.arguments))

\* mapFinishReason: null and the empty string are falsy
MapFinishReason(finishReason) ==
    IF finishReason = Absent \/ finishReason[1] = "" THEN Absent
    ELSE IF finishReason[1] = "stop" THEN <<"end_turn">>
    ELSE IF finishReason[1] = "length" THEN <<"max_tokens">>
    ELSE IF finishReason[1] = "tool_calls" THEN <<"tool_use">>
    ELSE IF finishReason[1] = "content_filter" THEN <<"end_turn">>
    ELSE <<"end_turn">>

\* "Add text content if present": null and '' are falsy
TextContent(message) ==
    IF message.content = Null \/ message.content = <<>> THEN <<>>
    ELSE <<TextBlock(message.content)>>

\* a content list that holds the tool_use blocks in reverse order
ToolUsesReversed(message) ==
    IF message.tool_calls = Absent THEN <<>>
    ELSE LET calls == message.tool_calls[1]
         IN  [i \in DOMAIN calls |-> ConvertToolCallToToolUse(calls[Len(calls) + 1 - i])]

\* "Add tool use blocks if present"
ToolUses(message) ==
    IF message.tool_calls = Absent THEN <<>>
    ELSE [i \in DOMAIN message.tool_calls[1] |->
             ConvertToolCallToToolUse(message.tool_calls[1][i])]

\* the exception that leaves convertResponseToAnthropic, if any
Threw(response) ==
    \/ response.choices = <<>>
    \/ \E i \in DOMAIN ToolUses(response.choices[1].message) :
           ToolUses(response.choices[1].message)[i].type = Uncaught.type

\* the AnthropicMessageResponse
ConvertResponseToAnthropic(response) ==
    LET choice == response.choices[1]
    IN  [type |-> "message",
         role |-> "assistant",
         content |-> TextContent(choice.message) \o ToolUses(choice.message),
         stop_reason |-> MapFinishReason(choice.finish_reason),
         usage |-> [input_tokens |-> response.usage.prompt_tokens,
                    output_tokens |-> response.usage.completion_tokens]]

\* the argument strings a backend sends: empty, {}, {k:1}, a truncated object, a
\* number, an object followed by a stray brace, an object with a trailing comma
ArgumentStrings ==
    {<<>>, <<"{", "}">>, <<"{", "k", ":", "1", "}">>, <<"{", "k", ":">>, <<"1">>,
     <<"{", "}", "}">>, <<"{", "k", ":", "1", ",", "}">>}

\* a call of f with each argument string, a call of g with {} and with a
\* truncated object
OpenAIToolCalls ==
    {[id |-> ShortId, name |-> <<"f">>, arguments |-> a] : a \in ArgumentStrings}
        \cup {[id |-> LongId, name |-> <<"g">>, arguments |-> a] :
                  a \in {<<"{", "}">>, <<"{", "k", ":">>}}

\* message.tool_calls: undefined, or a list of at most MaxToolCalls entries
ToolCallLists ==
    {Absent} \cup {<<calls>> : calls \in UNION {[1..n -> OpenAIToolCalls] : n \in 0..MaxToolCalls}}

\* null, the values of the OpenAI type, '' and a value outside the type
FinishReasons ==
    {Absent, <<"">>, <<"stop">>, <<"length">>, <<"tool_calls">>, <<"content_filter">>,
     <<"function_call">>}

OpenAIResponses ==
    {[choices |-> <<[message |-> [content |-> c, tool_calls |-> t], finish_reason |-> f]>>,
      usage |-> PlainUsage[1]] :
        c \in {Null, <<>>, AssistantText}, t \in ToolCallLists, f \in FinishReasons}
    \cup {[choices |-> <<>>, usage |-> PlainUsage[1]]}

\* the handler hands the backend response to the mapper
ConvertResponse(response) ==
    /\ converter = "response"
    /\ respPc = "waiting"
    /\ openaiResponse' = <<response>>
    /\ IF Threw(response)
       THEN respPc' = "threw" /\ anthropicResponse' = Absent
       ELSE respPc' = "returned" /\ anthropicResponse' = <<ConvertResponseToAnthropic(response)>>
    /\ UNCHANGED <<converter, reqVars, procVars, natVars, xmlVars, srvVars>>

InitResponseVars ==
    /\ respPc = "waiting"
    /\ openaiResponse = Absent
    /\ anthropicResponse = Absent

NextResponse == \E response \in OpenAIResponses : ConvertResponse(response)

-----------------------------------------------------------------------------
(* Messages handler: validateAnthropicRequest *)

\* a stream field: a boolean, or a value of another type
Boolean(value) == <<[isBoolean |-> TRUE, value |-> value]>>

NotBoolean == <<[isBoolean |-> FALSE, value |-> TRUE]>>

\* validateMessages, on the roles of the messages
ValidMessages(msgs) == \A i \in DOMAIN msgs : msgs[i].role \in {"user", "assistant"}

\* validateAnthropicRequest(body).valid
ValidateAnthropicRequest(body) ==
    /\ body.model # Absent
    /\ body.max_tokens # Absent /\ body.max_tokens[1] > 0
    /\ body.messages # Absent /\ Len(body.messages[1]) > 0 /\ ValidMessages(body.messages[1])
    /\ body.stream # Absent => body.stream[1].isBoolean

\* the request bodies a client posts
Bodies ==
    [model : {Absent, <<"claude">>},
     max_tokens : {Absent, <<0>>, <<1>>, <<1024>>},
     messages : {Absent, <<<<>>>>, <<<<StringMessage("user", UserText)>>>>,
                 <<<<StringMessage("system", UserText)>>>>},
     stream : {Absent, Boolean(TRUE), Boolean(FALSE), NotBoolean}]

-----------------------------------------------------------------------------
(* Messages handler: createMessagesHandler *)

\* anthropicRequest.stream ?? false
IsStreaming(body) == body.stream # Absent /\ body.stream[1].value

\* config.toolCallingStyle || 'native'
ToolStyle(style) == IF style = Absent THEN "native" ELSE style[1]

\* a dispatch that knows the native stream re-emitter only
OutputConverterNativeOnly(isStreaming, toolStyle) ==
    IF isStreaming THEN "streamOpenAIToAnthropic" ELSE "convertResponseToAnthropic"

\* the converter the handler hands the backend output to (index.ts:163-171)
OutputConverter(isStreaming, toolStyle) ==
    IF isStreaming
    THEN IF toolStyle = "xml" THEN "streamXmlOpenAIToAnthropic" ELSE "streamOpenAIToAnthropic"
    ELSE "convertResponseToAnthropic"

\* the status handleError sends: the status of the error, or 500
ErrorStatus(error) == IF error = Absent THEN 500 ELSE error[1]

\* validation, then convertRequestToOpenAI
ValidateAndMap ==
    /\ converter = "handler"
    /\ srvPc = "received"
    /\ IF ValidateAnthropicRequest(srvBody)
       THEN srvPc' = "mapped" /\ srvReply' = srvReply
       ELSE srvPc' = "done" /\ srvReply' = <<400>>
    /\ UNCHANGED <<converter, reqVars, procVars, natVars, xmlVars, respVars, srvBody, srvStyle,
                   srvBackend, srvRan>>

\* openai.chat.completions.create resolves
BackendReturns ==
    /\ converter = "handler"
    /\ srvPc = "mapped"
    /\ srvPc' = "delivering"
    /\ srvBackend' = "returned"
    /\ UNCHANGED <<converter, reqVars, procVars, natVars, xmlVars, respVars, srvBody, srvStyle,
                   srvRan, srvReply>>

\* openai.chat.completions.create rejects, with a status or without one: the
\* catch block of the handler calls handleError
BackendRejects(error) ==
    /\ converter = "handler"
    /\ srvPc = "mapped"
    /\ srvPc' = "done"
    /\ srvBackend' = "rejected"
    /\ srvReply' = <<ErrorStatus(error)>>
    /\ UNCHANGED <<converter, reqVars, procVars, natVars, xmlVars, respVars, srvBody, srvStyle,
                   srvRan>>

\* the backend output goes to one output converter
RunOutputConverter ==
    /\ converter = "handler"
    /\ srvPc = "delivering"
    /\ srvPc' = "done"
    /\ srvRan' = Append(srvRan, OutputConverter(IsStreaming(srvBody), ToolStyle(srvStyle)))
    /\ srvReply' = <<200>>
    /\ UNCHANGED <<converter, reqVars, procVars, natVars, xmlVars, respVars, srvBody, srvStyle,
                   srvBackend>>

InitHandlerVars ==
    /\ srvPc = "received"
    /\ srvBody \in Bodies
    /\ srvStyle \in {Absent, <<"native">>, <<"xml">>}
    /\ srvBackend = "not called"
    /\ srvRan = <<>>
    /\ srvReply = Absent

\* the handler of the other specifications is idle
IdleHandlerVars ==
    /\ srvPc = "received"
    /\ srvBody = [model |-> Absent, max_tokens |-> Absent, messages |-> Absent, stream |-> Absent]
    /\ srvStyle = Absent
    /\ srvBackend = "not called"
    /\ srvRan = <<>>
    /\ srvReply = Absent

NextHandler ==
    \/ ValidateAndMap
    \/ BackendReturns
    \/ \E error \in {Absent, <<401>>, <<429>>} : BackendRejects(error)
    \/ RunOutputConverter

-----------------------------------------------------------------------------
(* Specifications: one converter runs in a behaviour *)

InitVars ==
    /\ InitRequestVars /\ InitProcVars /\ InitNativeVars /\ InitXmlVars /\ InitResponseVars
    /\ IdleHandlerVars

InitHandler ==
    /\ converter = "handler"
    /\ InitRequestVars /\ InitProcVars /\ InitNativeVars /\ InitXmlVars /\ InitResponseVars
    /\ InitHandlerVars

SpecHandler == InitHandler /\ [][NextHandler]_vars

InitResponse == converter = "response" /\ InitVars

SpecResponse == InitResponse /\ [][NextResponse]_vars

InitRequest == converter = "request" /\ InitVars

SpecRequest == InitRequest /\ [][NextRequest]_vars

SpecRequests == InitRequest /\ [][NextRequests]_vars

InitMapper ==
    /\ converter = "request"
    /\ mappedBefore = {}
    /\ toolFormat \in {"native", "xml"}
    /\ anthropicRequest \in {<<req>> : req \in AnthropicRequests}
    /\ openaiRequest = Absent
    /\ reqPc = "start"
    /\ anthropicMsgs = <<>>
    /\ messages = <<>>
    /\ idDedup = EmptyCtx
    /\ InitProcVars /\ InitNativeVars /\ InitXmlVars /\ InitResponseVars /\ IdleHandlerVars

SpecMapper == InitMapper /\ [][NextMapper]_vars

InitNative == converter = "native" /\ InitVars

SpecNative == InitNative /\ [][NextNative]_vars

SpecNativeFragments == InitNative /\ [][NextNativeFragments]_vars

InitBuffer ==
    /\ converter = "buffer"
    /\ InitRequestVars /\ InitProcVars /\ InitNativeVars /\ InitBufferVars /\ InitResponseVars
    /\ IdleHandlerVars

SpecBuffer == InitBuffer /\ [][NextBuffer]_vars

InitXml == converter = "xml" /\ InitVars

SpecXml == InitXml /\ [][NextXml]_vars

InitStreams == converter \in {"native", "xml"} /\ InitVars

NextStreams ==
    \/ converter = "native" /\ NextNative
    \/ converter = "xml" /\ NextXml

SpecStreams == InitStreams /\ [][NextStreams]_vars

-----------------------------------------------------------------------------
(* What the request mapper read and what it put on the wire *)

IsToolBlock(b) == b.type \in {"tool_use", "tool_result"}

\* the tool_use and tool_result blocks of the input, in document order
Doc == SelectSeq(Flatten([m \in DOMAIN anthropicMsgs |-> anthropicMsgs[m].content]), IsToolBlock)

\* the ids of the tool_calls entries of the output, in order
UseWire ==
    Flatten([m \in DOMAIN messages |->
                [c \in DOMAIN messages[m].tool_calls |-> messages[m].tool_calls[c].id]])

IsToolMessage(m) == m.role = "tool"

\* the tool_call_id of the tool messages of the output, in order
ResWire ==
    LET t == SelectSeq(messages, IsToolMessage) IN [i \in DOMAIN t |-> t[i].tool_call_id]

\* the positions in Doc of the blocks of one kind with original id x
PositionsOf(kind, x) ==
    LET doc == Doc IN {p \in DOMAIN doc : doc[p].type = kind /\ doc[p].id = x}

\* the position in Doc of the n-th block of that kind and id
NthPosition(kind, x, n) ==
    LET positions == PositionsOf(kind, x)
    IN  CHOOSE p \in positions : Cardinality({q \in positions : q <= p}) = n

\* the rank of Doc[p] among the blocks of its kind (all ids)
RankInKind(p) ==
    LET doc == Doc IN Cardinality({q \in 1..p : doc[q].type = doc[p].type})

\* the id on the wire for the n-th tool_use block with original id x
WireOfUse(x, n) == UseWire[RankInKind(NthPosition("tool_use", x, n))]

\* the tool_call_id emitted for the n-th tool_result block referencing x
WireOfResult(x, n) == ResWire[RankInKind(NthPosition("tool_result", x, n))]

NumUses(x) == Cardinality(PositionsOf("tool_use", x))

NumResults(x) == Cardinality(PositionsOf("tool_result", x))

\* the n-th tool_result referencing x comes after the n-th tool_use with id x
UseComesFirst(x, n) == NthPosition("tool_use", x, n) < NthPosition("tool_result", x, n)

-----------------------------------------------------------------------------
(* C1 *)

\* C1 as stated: in every conversation with k tool_use blocks of one original id,
\* the i-th tool_result referencing that id (i <= k) carries the id put on the
\* wire for the i-th of those tool_use blocks.
C1_PairingAnyOrder ==
    \A x \in IdPool : \A i \in 1..NumUses(x) :
        i <= NumResults(x) => WireOfResult(x, i) = WireOfUse(x, i)

\* C1 amended: the i-th tool_result referencing an id carries the id put on the
\* wire for the i-th tool_use block with that id, provided that for every j <= i
\* the j-th tool_result referencing the id comes after the j-th tool_use with it.
C1_PairingInOrder ==
    \A x \in IdPool : \A i \in 1..NumUses(x) :
        (i <= NumResults(x) /\ \A j \in 1..i : UseComesFirst(x, j))
            => WireOfResult(x, i) = WireOfUse(x, i)

\* a duplicate was rewritten and the second result follows the rewritten id
C1_Witness ==
    \E x \in IdPool :
        /\ NumUses(x) >= 2
        /\ NumResults(x) >= 2
        /\ UseComesFirst(x, 1)
        /\ UseComesFirst(x, 2)
        /\ WireOfUse(x, 2) # WireOfUse(x, 1)
        /\ WireOfResult(x, 1) = x
        /\ WireOfResult(x, 2) = WireOfUse(x, 2)

-----------------------------------------------------------------------------
(* C2 *)

\* C2: the tool_calls ids one convertRequestToOpenAI call puts on the wire are
\* pairwise distinct, whatever the random generation yields.
C2_WireIdsDistinct ==
    \A i \in DOMAIN UseWire : \A j \in DOMAIN UseWire : i # j => UseWire[i] # UseWire[j]

-----------------------------------------------------------------------------
(* What a stream sent *)

\* the positions of the events of one type
EventsOfType(events, type) == {i \in DOMAIN events : events[i].type = type}

\* the positions before p of the events of one type and index
Before(events, type, index, p) ==
    {i \in 1..(p - 1) : events[i].type = type /\ events[i].index = index}

IsToolUseStart(e) == e.type = "content_block_start" /\ e.block = "tool_use"

\* the content_block_start events of the tool_use blocks, in order
ToolUseStarts(events) == SelectSeq(events, IsToolUseStart)

\* the deltas that are the first for their position: each opens a tool_use block
NatOpeningDeltas ==
    LET d == natToolDeltas
        first == {i \in DOMAIN d : \A j \in 1..(i - 1) : d[j].index # d[i].index}
        Nth(n) == CHOOSE i \in first : Cardinality({j \in first : j <= i}) = n
    IN  [n \in 1..Cardinality(first) |-> d[Nth(n)]]

\* the backend sent finish_reason once, on its last chunk
NatFinishReasonLast == natFinishes.last /\ natFinishes.count = 1

-----------------------------------------------------------------------------
(* C3 *)

\* C3: in a native stream that ended normally, as many content_block_stop events
\* were emitted as content_block_start events. Stated for the streams whose
\* backend sends finish_reason once, on the last chunk.
C3_StopsEqualStarts ==
    (natPc = "finished" /\ NatFinishReasonLast) =>
        Cardinality(EventsOfType(natEvents, "content_block_stop"))
            = Cardinality(EventsOfType(natEvents, "content_block_start"))

-----------------------------------------------------------------------------
(* C4 *)

\* C4: in a native stream that ended normally, every content_block_stop carries the
\* index of a block that was started and not yet stopped, and at message_stop every
\* started block has got exactly one content_block_stop with its index. Stated for
\* the streams whose backend sends finish_reason once, on the last chunk.
C4_StopsMatchOpenBlocks ==
    (natPc = "finished" /\ NatFinishReasonLast) =>
        /\ \A p \in EventsOfType(natEvents, "content_block_stop") :
              Cardinality(Before(natEvents, "content_block_start", natEvents[p].index, p))
                  > Cardinality(Before(natEvents, "content_block_stop", natEvents[p].index, p))
        /\ \A p \in EventsOfType(natEvents, "content_block_start") :
              Cardinality(Before(natEvents, "content_block_stop", natEvents[p].index,
                                 Len(natEvents) + 1))
                  = Cardinality(Before(natEvents, "content_block_start", natEvents[p].index,
                                       Len(natEvents) + 1))

-----------------------------------------------------------------------------
(* C5 *)

\* the names of the tool_code spans of a text, found left to right, each search
\* starting after the closing tag of the span before
RECURSIVE SpanNames(_)
SpanNames(text) ==
    LET m == ToolMatch(text) IN
    IF ~m.found THEN <<>>
    ELSE <<ToolNameOf(text[m.start])>> \o SpanNames(SubSeq(text, m.end + 1, Len(text)))

\* the names of the tool_use blocks the XML stream emitted, in order
XmlToolNames ==
    LET t == ToolUseStarts(xmlEvents) IN [i \in DOMAIN t |-> t[i].name]

\* C5: the buffer is cut right after the matched span, so the complete tool_code
\* spans outside <think> spans yield one tool_use block each, in text order, none
\* twice. Stated for the texts without <think> tags.
C5_OneBlockPerSpan ==
    (xmlPc = "finished" /\ \A i \in DOMAIN xmlText : xmlText[i] \notin {ThinkOpen, ThinkClose})
        => XmlToolNames = SpanNames(xmlText)

-----------------------------------------------------------------------------
(* C6 *)

\* C6: no tool_use block is emitted for a tool_code span inside a <think> span,
\* however the text is split: a text whose opening tool_code tags all lie inside
\* <think>...</think> spans yields no tool_use block.
C6_NoToolUseFromThink ==
    (xmlPc = "finished" /\ FirstIn(StripThink(xmlText), {ToolCodeOpen}, 1) = 0)
        => ToolUseStarts(xmlEvents) = <<>>

-----------------------------------------------------------------------------
(* C7 *)

\* C7: the ids of the tool_use blocks opened in one native stream are pairwise
\* distinct, also while other streams of the process open tool calls.
C7_StreamToolIdsDistinct ==
    LET t == ToolUseStarts(natEvents) IN
    \A i \in DOMAIN t : \A j \in DOMAIN t : i # j => t[i].id # t[j].id

-----------------------------------------------------------------------------
(* C8 *)

-----------------------------------------------------------------------------
(* C9 *)

\* after an exception: the events sent before it, then one error event with its message
ErrorPath(pc, events, ended, thrown) ==
    pc = "errored" =>
        /\ thrown.raised
        /\ ended
        /\ Len(events) = thrown.sent + 1
        /\ events[Len(events)] = ErrorEvent(thrown.message)
        /\ \A i \in 1..thrown.sent : events[i].type # "error"

\* C9: in both re-emitters, when iterating the backend chunks raises, exactly one
\* error event with the exception's message is emitted, it is the last event, the
\* response is ended, and no content_block_stop, message_delta or message_stop
\* follows the exception.
C9_ErrorEndsStream ==
    /\ ErrorPath(natPc, natEvents, natEnded, natThrown)
    /\ ErrorPath(xmlPc, xmlEvents, xmlEnded, xmlThrown)

\* the native stream failed while a text block was open
C9_Witness ==
    /\ natPc = "errored"
    /\ EventsOfType(natEvents, "content_block_start") # {}
    /\ EventsOfType(natEvents, "content_block_stop") = {}
    /\ natEvents[Len(natEvents)].type = "error"

-----------------------------------------------------------------------------
(* C10 *)

\* C10: in a native stream that ended normally message_start was emitted exactly
\* once (on the first backend chunk) and before every other event, message_delta
\* and message_stop included.
C10_MessageStartFirst ==
    natPc = "finished" =>
        /\ Cardinality(EventsOfType(natEvents, "message_start")) = 1
        /\ natEvents[1].type = "message_start"

-----------------------------------------------------------------------------
(* C11 *)

\* C11: a native stream that ended normally holds message_delta and message_stop
\* exactly once each, as its last two events in that order (so after every
\* content_block_stop), and the stop_reason of message_delta is tool_use if a
\* tool call was opened during the stream and end_turn otherwise.
C11_FinalEvents ==
    natPc = "finished" =>
        LET n == Len(natEvents) IN
        /\ n >= 2
        /\ EventsOfType(natEvents, "message_delta") = {n - 1}
        /\ EventsOfType(natEvents, "message_stop") = {n}
        /\ \A p \in EventsOfType(natEvents, "content_block_stop") : p < n - 1
        /\ natEvents[n - 1].block =
              (IF ToolUseStarts(natEvents) # <<>> THEN "tool_use" ELSE "end_turn")

\* a stream that opened a tool call, closed it and ended normally
C11_Witness ==
    /\ natPc = "finished"
    /\ ToolUseStarts(natEvents) # <<>>
    /\ EventsOfType(natEvents, "content_block_stop") # {}
    /\ natEvents[Len(natEvents) - 1].block = "tool_use"

-----------------------------------------------------------------------------
(* C12 *)

\* output_tokens and cache_read_input_tokens as message_delta has to report them
ReportedUsage(usage) ==
    IF usage = NoUsage THEN <<0, 0>>
    ELSE <<usage[1].completion_tokens, CachedTokens(usage)>>

\* the message_delta events of a stream
MessageDeltas(events) == {events[i] : i \in EventsOfType(events, "message_delta")}

\* C12: in both re-emitters message_delta reports the output_tokens and the
\* cache_read_input_tokens of the last backend chunk that carried a usage object,
\* whether or not that chunk had a choice entry, and 0 if no chunk carried usage.
C12_UsageOfLastChunk ==
    /\ natPc = "finished" =>
          \A e \in MessageDeltas(natEvents) : e.data = ReportedUsage(natUsage)
    /\ xmlPc = "finished" =>
          \A e \in MessageDeltas(xmlEvents) : e.data = ReportedUsage(xmlUsage)

-----------------------------------------------------------------------------
(* C13 *)

\* C13: the process-wide set of used tool ids is bounded: whenever the opening of
\* a tool call has completed it holds at most the limit of generateUniqueToolId
\* (10000 in the program, UsedToolIdsLimit here), whatever mix of backend-supplied
\* and generated ids the streams used.
C13_UsedToolIdsBounded == Len(usedToolIds) <= UsedToolIdsLimit

-----------------------------------------------------------------------------
(* C14 *)

\* the received text is a leading text without <think> tags and without an opening
\* tool_code tag, then one tool_code span whose arguments are plain text, then nothing
SingleSpanText ==
    LET open == FirstIn(xmlText, {ToolCodeOpen}, 1) IN
    /\ open # 0
    /\ Len(xmlText) >= open + 2
    /\ xmlText[Len(xmlText)] = ToolCodeClose
    /\ \A i \in (open + 1)..(Len(xmlText) - 1) : xmlText[i] = PlainText
    /\ \A i \in 1..(open - 1) : xmlText[i] \notin {ThinkOpen, ThinkClose}

\* the leading text T and the arguments A of such a text
LeadingText == SubSeq(xmlText, 1, FirstIn(xmlText, {ToolCodeOpen}, 1) - 1)

SpanArgs == SubSeq(xmlText, FirstIn(xmlText, {ToolCodeOpen}, 1) + 1, Len(xmlText) - 1)

\* an event without the token counts of message_start and message_delta
Shape(e) == IF e.type \in {"message_start", "message_delta"} THEN [e EXCEPT !.data = <<>>] ELSE e

Shapes(events) == [i \in DOMAIN events |-> Shape(events[i])]

\* the events C14 lists for the leading text T and the arguments A
SingleSpanEvents(T, A) ==
    LET text == IF Trim(T) # <<>>
                THEN <<ContentBlockStart(0, "text", <<>>, <<>>), TextDelta(0, Trim(T)),
                       ContentBlockStop(0)>>
                ELSE <<>>
        index == IF Trim(T) # <<>> THEN 1 ELSE 0
    IN  Shapes(<<MessageStartEvent(NewBufferedState)>>)
            \o text
            \o <<ContentBlockStart(index, "tool_use", ToolUseId, ToolNameOf(ToolCodeOpen)),
                 InputJsonDelta(index, A), ContentBlockStop(index)>>
            \o Shapes(<<MessageDeltaEvent("tool_use", NewBufferedState), MessageStopEvent>>)

\* C14: an XML stream whose text is an optional leading text T followed by exactly
\* one <tool_code name="N">A</tool_code> span and nothing else, in one chunk or
\* split over several, emits exactly message_start, a text block with T trimmed if
\* that is non-empty, a tool_use block named N with one input_json_delta carrying
\* A, message_delta with stop_reason tool_use, and message_stop.
C14_SingleSpanEvents ==
    (xmlPc = "finished" /\ SingleSpanText)
        => Shapes(xmlEvents) = SingleSpanEvents(LeadingText, SpanArgs)

-----------------------------------------------------------------------------
(* C15 *)

\* C15: in an XML stream that ended normally the stop_reason of message_delta is
\* tool_use if at least one tool_use block was emitted during the stream and
\* end_turn otherwise.
C15_XmlStopReason ==
    xmlPc = "finished" =>
        /\ MessageDeltas(xmlEvents) # {}
        /\ \A e \in MessageDeltas(xmlEvents) :
              e.block = (IF ToolUseStarts(xmlEvents) # <<>> THEN "tool_use" ELSE "end_turn")

\* a stream that emitted a text block and a tool_use block and ended normally
C15_Witness ==
    /\ xmlPc = "finished"
    /\ ToolUseStarts(xmlEvents) # <<>>
    /\ \E i \in DOMAIN xmlEvents : xmlEvents[i].block = "text"
    /\ \E e \in MessageDeltas(xmlEvents) : e.block = "tool_use"

-----------------------------------------------------------------------------
(* C16 *)

\* the message the loop has just consumed
Consumed == anthropicMsgs'[Len(anthropicMsgs')]

\* the loop consumes a message of that role and kind of content
Consumes(role, isString) ==
    /\ Len(anthropicMsgs') = Len(anthropicMsgs) + 1
    /\ Consumed.role = role
    /\ Consumed.isString = isString

\* the blocks hold no tool_use and their concatenated text is empty
EmptyBlocks(blocks) ==
    \A i \in DOMAIN blocks : blocks[i].type = "text" /\ blocks[i].text = <<>>

\* C16: an assistant message with block-array content whose concatenated text is
\* empty and which holds no tool_use block is mapped to zero backend messages, in
\* native mode and in XML mode.
C16_EmptyAssistantDropped ==
    [][(Consumes("assistant", FALSE) /\ EmptyBlocks(Consumed.content))
           => messages' = messages]_vars

-----------------------------------------------------------------------------
(* C17 *)

\* C17: an assistant message with string content is mapped to zero backend
\* messages if its trimmed content is one of the opener tokens, has at most 2
\* characters, or starts with <tool_code and holds no </tool_code>; every other
\* assistant string message is mapped to one assistant message with the content
\* unchanged.
C17_AssistantStringPrefill ==
    [][Consumes("assistant", TRUE) =>
          LET trimmed == Trim(Consumed.content)
              opener == trimmed \in {<<"{">>, <<"[">>, <<"backtick", "backtick", "backtick">>,
                                     <<"{", "quote">>, <<"[", "{">>, <<"<">>,
                                     ToolCodeStart, ToolCodeStart \o <<">">>}
              short == Len(trimmed) <= 2
              openTag == /\ Len(trimmed) >= Len(ToolCodeStart)
                         /\ SubSeq(trimmed, 1, Len(ToolCodeStart)) = ToolCodeStart
                         /\ \A i \in 1..(Len(trimmed) - Len(ToolCodeEnd) + 1) :
                               SubSeq(trimmed, i, i + Len(ToolCodeEnd) - 1) # ToolCodeEnd
          IN  IF opener \/ short \/ openTag
              THEN messages' = messages
              ELSE messages' = Append(messages, Message("assistant", Consumed.content))]_vars

\* an opening tag was dropped and a complete call was kept
C17_Witness ==
    /\ Len(anthropicMsgs) = 3
    /\ anthropicMsgs[1] = StringMessage("assistant", OpenToolCode)
    /\ anthropicMsgs[2] = StringMessage("assistant", CompleteToolCode)
    /\ anthropicMsgs[3] = StringMessage("assistant", CodeFence)
    /\ messages = <<Message("assistant", CompleteToolCode)>>

-----------------------------------------------------------------------------
(* C18 *)

\* C18: a request with max_tokens = 1 is mapped to a request with max_tokens = 32,
\* and every other max_tokens value is carried unchanged.
C18_MaxTokens ==
    reqPc = "returned" =>
        openaiRequest[1].max_tokens =
            (IF anthropicRequest[1].max_tokens = 1 THEN 32 ELSE anthropicRequest[1].max_tokens)

\* a request with max_tokens = 1 was returned with 32
C18_Witness ==
    /\ reqPc = "returned"
    /\ anthropicRequest[1].max_tokens = 1
    /\ openaiRequest[1].max_tokens = 32

-----------------------------------------------------------------------------
(* C19 *)

\* C19: a request mapped in XML mode has temperature = 0, whatever temperature the
\* input carries and also when it carries none.
C19_XmlTemperatureZero ==
    (reqPc = "returned" /\ toolFormat = "xml") => openaiRequest[1].temperature = <<0>>

\* XML mode: an input temperature of 1 was returned as 0
C19_Witness ==
    /\ reqPc = "returned"
    /\ toolFormat = "xml"
    /\ anthropicRequest[1].temperature = <<1>>
    /\ openaiRequest[1].temperature = <<0>>

-----------------------------------------------------------------------------
(* C20 *)

\* C20: the mapped request carries tools and tool_choice only in native mode: in
\* XML mode neither field is present, whatever the input request holds.
C20_ToolsOnlyNative ==
    (reqPc = "returned" /\ toolFormat = "xml") =>
        /\ openaiRequest[1].tools = Absent
        /\ openaiRequest[1].tool_choice = Absent

\* XML mode: a request with tools and a tool_choice was returned without them
C20_Witness ==
    /\ reqPc = "returned"
    /\ toolFormat = "xml"
    /\ anthropicRequest[1].tools # Absent
    /\ Len(anthropicRequest[1].tools[1]) > 0
    /\ anthropicRequest[1].tool_choice # Absent
    /\ openaiRequest[1].tools = Absent
    /\ openaiRequest[1].tool_choice = Absent

-----------------------------------------------------------------------------
(* What the response mapper read and what it returned *)

\* the response holds a choice
HasChoice == openaiResponse # Absent /\ openaiResponse[1].choices # <<>>

\* choices[0], its message and the tool_calls entries of the message
Choice == openaiResponse[1].choices[1]

BackendCalls ==
    IF Choice.message.tool_calls = Absent THEN <<>> ELSE Choice.message.tool_calls[1]

\* the backend text content is a non-empty string
BackendHasText == Choice.message.content # Null /\ Choice.message.content # <<>>

\* the number of blocks before the first tool_use block
TextOffset == IF BackendHasText THEN 1 ELSE 0

Content == anthropicResponse[1].content

-----------------------------------------------------------------------------
(* C21 *)

\* C21: for every backend response with finish_reason = tool_calls the mapper
\* returns stop_reason = tool_use and a content list with one tool_use block per
\* tool_calls entry, in the same order, with the backend's id and name, preceded by
\* one text block exactly when the backend text content is non-empty.
C21_ToolCallsResponse ==
    (HasChoice /\ Choice.finish_reason = <<"tool_calls">>) =>
        /\ respPc = "returned"
        /\ anthropicResponse[1].stop_reason = <<"tool_use">>
        /\ Len(Content) = TextOffset + Len(BackendCalls)
        /\ BackendHasText =>
              Content[1].type = "text" /\ Content[1].text = Choice.message.content
        /\ \A i \in DOMAIN BackendCalls :
              /\ Content[TextOffset + i].type = "tool_use"
              /\ Content[TextOffset + i].id = BackendCalls[i].id
              /\ Content[TextOffset + i].name = BackendCalls[i].name

\* a text and two tool calls with different ids were mapped to three blocks
C21_Witness ==
    /\ HasChoice
    /\ Choice.finish_reason = <<"tool_calls">>
    /\ respPc = "returned"
    /\ BackendHasText
    /\ Len(BackendCalls) = 2
    /\ BackendCalls[1].id # BackendCalls[2].id
    /\ Len(Content) = 3
    /\ Content[3].id = BackendCalls[2].id

-----------------------------------------------------------------------------
(* C22 *)

\* C22: stop_reason is a total function of finish_reason: stop gives end_turn,
\* length gives max_tokens, tool_calls gives tool_use, content_filter gives
\* end_turn, null gives null, and every other value gives end_turn.
C22_StopReasonTable ==
    (HasChoice /\ respPc = "returned") =>
        anthropicResponse[1].stop_reason =
            (IF Choice.finish_reason = Absent THEN Absent
             ELSE IF Choice.finish_reason = <<"length">> THEN <<"max_tokens">>
             ELSE IF Choice.finish_reason = <<"tool_calls">> THEN <<"tool_use">>
             ELSE <<"end_turn">>)

-----------------------------------------------------------------------------
(* C23 *)

\* C23: for every backend tool call whose arguments string is not valid JSON the
\* mapper does not fail: that tool_use block gets input { raw: arguments }, and
\* the other blocks of the response are converted as usual.
C23_InvalidArgumentsWrapped ==
    HasChoice =>
        /\ respPc = "returned"
        /\ Len(Content) = TextOffset + Len(BackendCalls)
        /\ BackendHasText =>
              Content[1].type = "text" /\ Content[1].text = Choice.message.content
        /\ \A i \in DOMAIN BackendCalls :
              LET parse == JsonParse(BackendCalls[i].arguments)
                  block == Content[TextOffset + i]
              IN  /\ block.type = "tool_use"
                  /\ block.id = BackendCalls[i].id
                  /\ block.name = BackendCalls[i].name
                  /\ block.input = IF parse.ok THEN Parsed(parse.value)
                                   ELSE Raw(BackendCalls[i].arguments)

\* a truncated object was wrapped, next to a text and a call with valid arguments
C23_Witness ==
    /\ HasChoice
    /\ respPc = "returned"
    /\ BackendHasText
    /\ Len(BackendCalls) = 2
    /\ BackendCalls[1].arguments = <<"{", "k", ":">>
    /\ BackendCalls[2].arguments = <<"{", "k", ":", "1", "}">>
    /\ Content[2].input = Raw(<<"{", "k", ":">>)
    /\ Content[3].input = Parsed(JsonObject(<<JsonNumber>>))

-----------------------------------------------------------------------------
(* C24 *)

\* the positions of the system messages of the mapped request
SystemPositions == {i \in DOMAIN messages : messages[i].role = "system"}

\* the request holds at least one tool definition
HasTools(req) == req.tools # Absent /\ Len(req.tools[1]) >= 1

\* C24: the mapped request holds at most one system message and, when present, it
\* is the first message; in XML mode with at least one tool definition the
\* instruction block is appended to that system message, or is the content of the
\* first (system) message when the request had no system content.
C24_SystemMessageFirst ==
    (converter = "request" /\ reqPc # "start") =>
        LET req == anthropicRequest[1] IN
        /\ SystemPositions \subseteq {1}
        /\ (toolFormat = "xml" /\ HasTools(req)) =>
              /\ SystemPositions = {1}
              /\ \E hasUpdate \in BOOLEAN :
                    messages[1].content =
                        IF HasSystem(req)
                        THEN SystemPromptMessages(req, hasUpdate)[1].content
                                 \o Newline \o Newline
                                 \o GenerateXmlToolInstructions(req.tools[1])
                        ELSE GenerateXmlToolInstructions(req.tools[1])

\* XML mode: the instructions were appended to the system message built from an
\* array of two texts, and messages of the conversation follow it
C24_Witness ==
    /\ converter = "request"
    /\ reqPc = "returned"
    /\ toolFormat = "xml"
    /\ anthropicRequest[1].system = SystemArray(<<<<"a">>, <<"b">>>>)
    /\ HasTools(anthropicRequest[1])
    /\ Len(messages) = 3
    /\ messages[1].role = "system"
    /\ SubSeq(messages[1].content, 1, 6) = <<"a", "\n", "b", "\n", "\n", "# TOOL CALLING FORMAT">>
    /\ messages[2].role = "user"

-----------------------------------------------------------------------------
(* C25 *)

\* the messages the loop has just pushed
Pushed == SubSeq(messages', Len(messages) + 1, Len(messages'))

IsToolResult(b) == b.type = "tool_result"

IsText(b) == b.type = "text"

\* C25: in native mode the backend messages after the system message are the
\* concatenation, in message order, of the expansion of each input message, and a
\* user message with content blocks expands to one tool message per tool_result
\* block, in block order, followed by at most one user message that holds the text
\* blocks.
C25_NativeExpansionOrder ==
    [][(toolFormat = "native" /\ Len(anthropicMsgs') = Len(anthropicMsgs) + 1) =>
          /\ Len(messages') >= Len(messages)
          /\ SubSeq(messages', 1, Len(messages)) = messages
          /\ Consumes("user", FALSE) =>
                LET results == SelectSeq(Consumed.content, IsToolResult)
                    texts == SelectSeq(Consumed.content, IsText)
                    k == Len(results)
                IN  /\ Len(Pushed) = k + (IF texts = <<>> THEN 0 ELSE 1)
                    /\ \A i \in 1..k :
                          Pushed[i].role = "tool" /\ Pushed[i].content = results[i].text
                    /\ texts # <<>> =>
                          /\ Pushed[k + 1].role = "user"
                          /\ Pushed[k + 1].content =
                                 IF Len(texts) = 1 THEN texts[1].text
                                 ELSE [i \in DOMAIN texts |-> texts[i].text]]_vars

\* native mode: a user message whose blocks alternate tool results and texts was
\* mapped to its two tool messages and then one user message, after an earlier
\* assistant message
C25_Witness ==
    /\ toolFormat = "native"
    /\ Len(anthropicMsgs) = 2
    /\ anthropicMsgs[1].role = "assistant"
    /\ anthropicMsgs[2].role = "user"
    /\ ~anthropicMsgs[2].isString
    /\ Len(anthropicMsgs[2].content) = 4
    /\ anthropicMsgs[2].content[2].type = "text"
    /\ Len(messages) = 4
    /\ messages[1].role = "assistant"
    /\ messages[2].role = "tool"
    /\ messages[3].role = "tool"
    /\ messages[4].role = "user"

-----------------------------------------------------------------------------
(* C26 *)

\* C26: every id assigned to a tool_use block has the character length of the
\* block's original id, and when the original is longer than 11 characters the
\* first 8 characters of the assigned id are the first 8 of the original.
C26_AssignedIdShape ==
    \A x \in DOMAIN idDedup.idMappings :
        \A i \in DOMAIN idDedup.idMappings[x] :
            LET assigned == idDedup.idMappings[x][i] IN
            /\ Len(assigned) = Len(x)
            /\ Len(x) > 11 => SubSeq(assigned, 1, 8) = SubSeq(x, 1, 8)

\* a 12-character id occurred twice and its second occurrence got another id
C26_Witness ==
    \E x \in DOMAIN idDedup.idMappings :
        /\ Len(x) = 12
        /\ Len(idDedup.idMappings[x]) = 2
        /\ idDedup.idMappings[x][1] = x
        /\ idDedup.idMappings[x][2] # x
        /\ Len(idDedup.idMappings[x][2]) = 12

-----------------------------------------------------------------------------
(* C27 *)

-----------------------------------------------------------------------------
(* C28 *)

\* the converter C28 names for the stream flag and the mode of a request
ExpectedConverter ==
    IF srvBody.stream # Absent /\ srvBody.stream[1].value
    THEN IF srvStyle = <<"xml">> THEN "streamXmlOpenAIToAnthropic"
         ELSE "streamOpenAIToAnthropic"
    ELSE "convertResponseToAnthropic"

\* an invalid request: no converter ran, 400 was sent, the backend was not called
RejectedWith400 == srvRan = <<>> /\ srvReply = <<400>> /\ srvBackend = "not called"

-----------------------------------------------------------------------------
(* C29 *)

IsTextStart(e) == e.type = "content_block_start" /\ e.block = "text"

IsTextDelta(e) == e.type = "content_block_delta" /\ e.block = "text_delta"

\* a text block is open at the index of the event at position p: its start was
\* sent before p and no content_block_stop of that index lies between them
TextBlockOpenAt(events, p) ==
    \E s \in 1..(p - 1) :
        /\ IsTextStart(events[s])
        /\ events[s].index = events[p].index
        /\ \A q \in (s + 1)..(p - 1) :
              ~(events[q].type = "content_block_stop" /\ events[q].index = events[p].index)

\* C29: in a native stream every text_delta is emitted while a text block is open
\* at the delta's index: at most one text content_block_start is emitted, it has
\* index 0 and precedes the first text_delta, and each text_delta carries one
\* non-empty backend content delta unmodified, after that start and before the
\* block's content_block_stop.
C29_TextDeltaInOpenTextBlock ==
    /\ Cardinality({s \in DOMAIN natEvents : IsTextStart(natEvents[s])}) <= 1
    /\ \A s \in DOMAIN natEvents : IsTextStart(natEvents[s]) => natEvents[s].index = 0
    /\ \A p \in DOMAIN natEvents :
          IsTextDelta(natEvents[p]) =>
              /\ natEvents[p].data = TextChunk.content
              /\ TextBlockOpenAt(natEvents, p)

-----------------------------------------------------------------------------
(* C30 *)

IsInputJsonDelta(e) == e.type = "content_block_delta" /\ e.block = "input_json_delta"

HasArguments(delta) == delta.arguments # <<>>

\* the index of the content_block_start that opened the tool_use block of a position
StartIndexOf(position) ==
    LET n == CHOOSE k \in DOMAIN NatOpeningDeltas : NatOpeningDeltas[k].index = position
    IN  ToolUseStarts(natEvents)[n].index

\* C30: for every backend tool-call position of a native stream, the
\* input_json_delta events emitted for it carry, in order and unmodified, exactly
\* the non-empty argument fragments received for that position, and each of them
\* has the index of the content_block_start that opened the position's tool_use
\* block.
C30_FragmentsAtBlockIndex ==
    LET fragments == SelectSeq(natToolDeltas, HasArguments)
        sent == SelectSeq(natEvents, IsInputJsonDelta)
    IN  /\ Len(sent) = Len(fragments)
        /\ \A i \in DOMAIN sent :
              /\ sent[i].data = fragments[i].arguments
              /\ sent[i].index = StartIndexOf(fragments[i].index)

-----------------------------------------------------------------------------
(* C31 *)

IsBlockStart(e) == e.type = "content_block_start"

\* C31: in a native stream no two content_block_start events carry the same
\* index, whatever the order in which text deltas and tool-call deltas arrive.
C31_StartIndicesDistinct ==
    \A p, q \in DOMAIN natEvents :
        (/\ p < q
         /\ IsBlockStart(natEvents[p])
         /\ IsBlockStart(natEvents[q])) => natEvents[p].index # natEvents[q].index

-----------------------------------------------------------------------------
(* C32 *)

IsBlockStop(e) == e.type = "content_block_stop"

\* the text block started at position s has its content_block_stop before position p
TextClosedBefore(events, s, p) ==
    \E q \in (s + 1)..(p - 1) :
        IsBlockStop(events[q]) /\ events[q].index = events[s].index

\* C32: whenever the native re-emitter emits a content_block_start for a
\* tool_use block, no text block is open: if a text block was started earlier in
\* the stream, its content_block_stop was emitted before this start.
C32_NoTextOpenAtToolStart ==
    \A p \in DOMAIN natEvents :
        IsToolUseStart(natEvents[p]) =>
            \A s \in 1..(p - 1) :
                IsTextStart(natEvents[s]) => TextClosedBefore(natEvents, s, p)

\* a tool call is opened, text follows, and a second tool call is opened after
\* the text block's stop
C32_Witness ==
    \E t, s, p \in DOMAIN natEvents :
        /\ t < s /\ s < p
        /\ IsToolUseStart(natEvents[t])
        /\ IsTextStart(natEvents[s])
        /\ IsToolUseStart(natEvents[p])
        /\ TextClosedBefore(natEvents, s, p)

-----------------------------------------------------------------------------
(* C33 *)

\* the number of tool_use blocks with id x before position p of the document
UsesBefore(doc, x, p) ==
    Cardinality({q \in 1..(p - 1) : doc[q].type = "tool_use" /\ doc[q].id = x})

\* the cursor of id x when the block at position p is reached: a tool_result
\* referencing x moves it on only while it is below the number of ids assigned
RECURSIVE CursorBefore(_, _, _)
CursorBefore(doc, x, p) ==
    IF p <= 1 THEN 0
    ELSE LET c == CursorBefore(doc, x, p - 1)
             b == doc[p - 1]
         IN  IF b.type = "tool_result" /\ b.id = x /\ c < UsesBefore(doc, x, p - 1)
             THEN c + 1
             ELSE c

\* the tool_result at position p has no tool_use registered before it, or the
\* list of its id is fully consumed
IsPassedThrough(doc, p) ==
    /\ doc[p].type = "tool_result"
    /\ CursorBefore(doc, doc[p].id, p) >= UsesBefore(doc, doc[p].id, p)

\* C33: a tool_result whose id has no tool_use registered before it in the
\* conversation, or whose id's list of assigned ids is already fully consumed,
\* is emitted with its original tool_use_id and leaves the cursor unchanged; the
\* cursor of an id never exceeds the number of ids assigned for that id.
C33_OrphanPassedThrough ==
    LET doc == Doc
        wire == ResWire
    IN  /\ Len(wire) = Cardinality({p \in DOMAIN doc : doc[p].type = "tool_result"})
        /\ \A p \in DOMAIN doc :
              IsPassedThrough(doc, p) =>
                  wire[Cardinality({q \in 1..p : doc[q].type = "tool_result"})] = doc[p].id
        /\ \A x \in IdPool :
              /\ ResultIdx(idDedup, x) = CursorBefore(doc, x, Len(doc) + 1)
              /\ ResultIdx(idDedup, x)
                     <= (IF Has(idDedup.idMappings, x) THEN Len(idDedup.idMappings[x]) ELSE 0)

\* an orphan tool_result came before the tool_use of its id, and after the
\* tool_use two results referenced the id: the first took the assigned id, the
\* second found the list consumed
C33_Witness ==
    LET doc == Doc
    IN  /\ Len(doc) = 4
        /\ doc[1].type = "tool_result" /\ doc[1].id = LongId
        /\ doc[2].type = "tool_use" /\ doc[2].id = LongId
        /\ doc[3].type = "tool_result" /\ doc[3].id = LongId
        /\ doc[4].type = "tool_result" /\ doc[4].id = LongId
        /\ IsPassedThrough(doc, 1)
        /\ ~IsPassedThrough(doc, 3)
        /\ IsPassedThrough(doc, 4)
        /\ ResWire = <<LongId, LongId, LongId>>
        /\ ResultIdx(idDedup, LongId) = 1

-----------------------------------------------------------------------------
(* C34 *)

IsToolUseBlock(b) == b.type = "tool_use"

IsToolResultBlock(b) == b.type = "tool_result"

\* the original ids of the blocks of a sequence, in order
IdsOf(blocks) == [i \in DOMAIN blocks |-> blocks[i].id]

\* the tool_use ids of the conversation are pairwise distinct
UseIdsDistinct(doc) ==
    \A p, q \in DOMAIN doc :
        (p < q /\ IsToolUseBlock(doc[p]) /\ IsToolUseBlock(doc[q])) => doc[p].id # doc[q].id

\* C34: if all tool_use ids of a conversation are pairwise distinct, every
\* tool_calls id and every tool_call_id in the mapped request equals the original
\* id of its block: the reconciler rewrites nothing.
C34_DistinctIdsKept ==
    LET doc == Doc
    IN  UseIdsDistinct(doc) =>
            /\ UseWire = IdsOf(SelectSeq(doc, IsToolUseBlock))
            /\ ResWire = IdsOf(SelectSeq(doc, IsToolResultBlock))

\* two tool calls with different ids, each answered by a tool_result
C34_Witness ==
    LET doc == Doc
    IN  /\ UseIdsDistinct(doc)
        /\ Len(doc) = 4
        /\ UseWire = <<ShortId, LongId>>
        /\ ResWire = <<LongId, LongId>>
        /\ reqPc = "returned"

-----------------------------------------------------------------------------
(* C35 *)

\* the ids put on the wire for the tool_use blocks with original id x, in order
WiresOfUses(x) == [n \in 1..NumUses(x) |-> WireOfUse(x, n)]

\* C35: the identifier table is created empty in every convertRequestToOpenAI
\* call: the ids assigned while mapping one request do not depend on any request
\* mapped before it, so an id that occurred only in another request is never
\* treated as a duplicate. The table holds what this call's messages put into
\* it and nothing else.
C35_TablePerCall ==
    LET doc == Doc
        wire == UseWire
    IN  /\ reqPc = "start" => idDedup = EmptyCtx
        /\ idDedup.seenIds = {wire[i] : i \in DOMAIN wire}
        /\ DOMAIN idDedup.idMappings = {x \in IdPool : NumUses(x) > 0}
        /\ \A x \in DOMAIN idDedup.idMappings : idDedup.idMappings[x] = WiresOfUses(x)
        /\ UseIdsDistinct(doc) => wire = IdsOf(SelectSeq(doc, IsToolUseBlock))

\* an earlier request held the id; this request holds it once, and its tool call
\* and tool result carry it as received
C35_Witness ==
    /\ LongId \in mappedBefore
    /\ reqPc = "returned"
    /\ Len(Doc) = 2
    /\ UseWire = <<LongId>>
    /\ ResWire = <<LongId>>
    /\ idDedup.idMappings[LongId] = <<LongId>>

-----------------------------------------------------------------------------
(* C36 *)

IsBlockDelta(e) == e.type = "content_block_delta"

IsBlockEvent(e) == IsBlockStart(e) \/ IsBlockDelta(e) \/ IsBlockStop(e)

\* C36: in an XML stream every content block is emitted as content_block_start,
\* exactly one content_block_delta and content_block_stop in immediate
\* succession with the same index, and successive blocks have indices 0, 1, 2,
\* ... without gap or repetition; hence no block is open when a backend chunk
\* has been processed.
C36_XmlBlocksComplete ==
    LET blockEvents == SelectSeq(xmlEvents, IsBlockEvent)
        blocks == Len(blockEvents) \div 3
    IN  /\ Len(blockEvents) = 3 * blocks
        /\ xmlState.contentBlockIndex = blocks
        /\ \A k \in 0..(blocks - 1) :
              /\ IsBlockStart(blockEvents[3 * k + 1]) /\ blockEvents[3 * k + 1].index = k
              /\ IsBlockDelta(blockEvents[3 * k + 2]) /\ blockEvents[3 * k + 2].index = k
              /\ IsBlockStop(blockEvents[3 * k + 3]) /\ blockEvents[3 * k + 3].index = k
        /\ \A p \in DOMAIN xmlEvents :
              IsBlockStart(xmlEvents[p]) =>
                  /\ p + 2 <= Len(xmlEvents)
                  /\ IsBlockDelta(xmlEvents[p + 1])
                  /\ IsBlockStop(xmlEvents[p + 2])

\* a text block, a tool_use block and the text block of the final flush
C36_Witness ==
    LET starts == SelectSeq(xmlEvents, IsBlockStart)
    IN  /\ xmlPc = "finished"
        /\ xmlChunkCount > 1
        /\ Len(starts) = 3
        /\ starts[1].block = "text"
        /\ starts[2].block = "tool_use"
        /\ starts[3].block = "text"
        /\ starts[3].index = 2

-----------------------------------------------------------------------------
(* C37 *)

\* the content blocks of an event list, in order: type, name and text or arguments
BlocksOf(events) ==
    LET starts == {p \in DOMAIN events : IsBlockStart(events[p])}
        nth(n) == CHOOSE p \in starts : Cardinality({q \in starts : q <= p}) = n
    IN  [n \in 1..Cardinality(starts) |->
            [block |-> events[nth(n)].block,
             name |-> events[nth(n)].name,
             data |-> events[nth(n) + 1].data]]

\* the events of a stream that delivers `text` in one chunk and then ends
OneChunkEvents(text) ==
    FlushRemainingContent(
        ProcessBuffer(XmlWork([NewBufferedState EXCEPT !.buffer = text], <<>>))).events

\* C37: the sequence of content blocks emitted by the XML re-emitter (types,
\* names, texts and argument strings, in order) depends only on the
\* concatenation of the backend text deltas, not on where that text is split
\* into chunks.
C37_SplitIndependent ==
    xmlPc = "finished" => BlocksOf(xmlEvents) = BlocksOf(OneChunkEvents(xmlText))

-----------------------------------------------------------------------------
(* C38 *)

====
